---------------------------- MODULE Spec2Model ----------------------------
(***************************************************************************)
(* A model of the Zygotrix genetics engine (zygotrix_engine_cpp):          *)
(*   - Engine: construction, createIndividual / normalizedGenotype,        *)
(*     generateGamete / generateGameteForGroup, mate, expressPhenotype     *)
(*     with its modifier stages;                                           *)
(*   - MendelianCalculator: the exact (Punnett square) calculator;         *)
(*   - ThreadPool: submit, workerLoop, waitAll and the destructor.         *)
(*                                                                         *)
(* Representation.  std::string is a TLA+ string (Len, \o and SubSeq act   *)
(* on it).  A double is a fixed-point integer: the double v is the integer *)
(* v * One; every number the modelled configurations use is a multiple of  *)
(* a small power of 1/2, for which both the double arithmetic of the code  *)
(* and the integer arithmetic of the model are exact.  std::optional is a  *)
(* sequence of length 0 or 1.  An unordered_map is a function whose        *)
(* DOMAIN is the set of keys present.  A thrown exception is a result      *)
(* record whose err field names the exception type.                        *)
(***************************************************************************)
EXTENDS Integers, Sequences, FiniteSets, TLC

VARIABLES
    engine,       \* the constructed Engine (config_ and its lookup indices)
    individuals,  \* the Individuals the caller holds (all returned by the engine)
    lastCall,     \* the last engine call: its name and the sexes of its arguments
    lastErr,      \* the exception type the last call ended with, or "none"
    args,         \* the arguments of the function call a function run made last
    result,       \* what that call returned
    pool          \* the ThreadPool object and the positions of its threads

vars == <<engine, individuals, lastCall, lastErr, args, result, pool>>

(***************************************************************************)
(* Bounds of the model.                                                    *)
(***************************************************************************)
\* the caller holds at most this many Individuals at a time
MaxIndividuals == 3

\* a caller supplies at most this many alleles for a gene
MaxSupplied == 3

(***************************************************************************)
(* Doubles.                                                                *)
(***************************************************************************)
\* the double 1.0 in fixed point
One == 1024

Half == One \div 2

Mul(a, b) == (a * b) \div One

Div(a, b) == (a * One) \div b

(***************************************************************************)
(* std::string helpers.                                                    *)
(***************************************************************************)
\* the printable ASCII characters in code order, from the space (code 32) on and
\* without the backquote
AsciiTable ==
    " !\"#$%&'()*+,-./0123456789:;<=>?@ABCDEFGHIJKLMNOPQRSTUVWXYZ[\\]^_abcdefghijklmnopqrstuvwxyz{|}~"

CharAt(s, i) == SubSeq(s, i, i)

\* the characters of AsciiTable, one string each
AsciiChars == [i \in 1..Len(AsciiTable) |-> CharAt(AsciiTable, i)]

\* character -> its position in AsciiTable
AsciiRank ==
    [c \in { AsciiChars[i] : i \in 1..Len(AsciiChars) } |->
        CHOOSE i \in 1..Len(AsciiChars) : AsciiChars[i] = c]

\* position of a character in AsciiTable: it orders characters as their codes do
Ord(c) == AsciiRank[c]

IsUpper(c) == Ord(c) >= AsciiRank["A"] /\ Ord(c) <= AsciiRank["Z"]

IsLower(c) == Ord(c) >= AsciiRank["a"] /\ Ord(c) <= AsciiRank["z"]

IsDigit(c) == Ord(c) >= AsciiRank["0"] /\ Ord(c) <= AsciiRank["9"]

\* std::isalpha / std::isalnum in the "C" locale
IsAlpha(c) == IsUpper(c) \/ IsLower(c)

IsAlnum(c) == IsAlpha(c) \/ IsDigit(c)

ToUpperChar(c) ==
    IF IsLower(c) THEN AsciiChars[Ord(c) - (AsciiRank["a"] - AsciiRank["A"])] ELSE c

RECURSIVE StrLess(_, _)
\* std::string operator< : lexicographic by character code
StrLess(s, t) ==
    IF Len(t) = 0 THEN FALSE
    ELSE IF Len(s) = 0 THEN TRUE
    ELSE IF Ord(Head(s)) < Ord(Head(t)) THEN TRUE
    ELSE IF Ord(Head(s)) > Ord(Head(t)) THEN FALSE
    ELSE StrLess(Tail(s), Tail(t))

StrLessEq(s, t) == s = t \/ StrLess(s, t)

RECURSIVE stripNonAlnum(_)
stripNonAlnum(value) ==
    IF Len(value) = 0 THEN ""
    ELSE (IF IsAlnum(Head(value)) THEN Head(value) ELSE "") \o stripNonAlnum(Tail(value))

RECURSIVE toUpperCopy(_)
toUpperCopy(value) ==
    IF Len(value) = 0 THEN ""
    ELSE ToUpperChar(Head(value)) \o toUpperCopy(Tail(value))

\* std::string::find: the first position (from 1) where sub occurs, 0 for npos
StrFind(s, sub) ==
    LET hits == { i \in 1..(Len(s) - Len(sub) + 1) : SubSeq(s, i, i + Len(sub) - 1) = sub }
    IN  IF hits = {} THEN 0 ELSE CHOOSE i \in hits : \A j \in hits : i <= j

\* std::string::erase(pos, len), pos counted from 1
StrErase(s, pos, len) == SubSeq(s, 1, pos - 1) \o SubSeq(s, pos + len, Len(s))

(***************************************************************************)
(* Sequence helpers.                                                       *)
(***************************************************************************)
Range(s) == { s[i] : i \in 1..Len(s) }

Contains(s, x) == \E i \in 1..Len(s) : s[i] = x

\* push_back of x unless std::find already finds it
AppendUnique(s, x) == IF Contains(s, x) THEN s ELSE Append(s, x)

RECURSIVE Unique(_)
\* the first occurrences of the elements of s, in order
Unique(s) ==
    IF s = << >> THEN << >>
    ELSE LET front == Unique(SubSeq(s, 1, Len(s) - 1))
         IN  AppendUnique(front, s[Len(s)])

RECURSIVE Flatten(_)
Flatten(ss) == IF ss = << >> THEN << >> ELSE Head(ss) \o Flatten(Tail(ss))

RECURSIVE Join(_, _)
Join(pieces, sep) ==
    IF pieces = << >> THEN ""
    ELSE IF Len(pieces) = 1 THEN pieces[1]
    ELSE pieces[1] \o sep \o Join(Tail(pieces), sep)

(***************************************************************************)
(* The data model (Engine.hpp).                                            *)
(***************************************************************************)
Male == "Male"

Female == "Female"

Sex == {Male, Female}

\* struct AlleleEffect
AlleleEffect(traitId, magnitude, description, intermediateDescriptor) ==
    [traitId |-> traitId, magnitude |-> magnitude, description |-> description,
     intermediateDescriptor |-> intermediateDescriptor]

\* struct AlleleDefinition
AlleleDefinition(id, dominanceRank, effects) ==
    [id |-> id, dominanceRank |-> dominanceRank, effects |-> effects]

\* struct GeneDefinition; linkageGroup is << >> or <<groupId>>
GeneDefinition(id, chromosome, dominance, linkageGroup, recombinationProbability, incompleteBlendWeight, defaultAlleleId, alleles) ==
    [id |-> id, chromosome |-> chromosome, dominance |-> dominance,
     linkageGroup |-> linkageGroup,
     recombinationProbability |-> recombinationProbability,
     incompleteBlendWeight |-> incompleteBlendWeight,
     defaultAlleleId |-> defaultAlleleId, alleles |-> alleles]

\* struct EpistasisRule
EpistasisRule(regulatorGene, triggeringAllele, requirement, action, targetTrait, modifier, overrideDescription, overrideValue) ==
    [regulatorGene |-> regulatorGene, triggeringAllele |-> triggeringAllele,
     requirement |-> requirement, action |-> action, targetTrait |-> targetTrait,
     modifier |-> modifier, overrideDescription |-> overrideDescription,
     overrideValue |-> overrideValue]

\* struct EngineConfig
EngineConfig(genes, epistasis) == [genes |-> genes, epistasis |-> epistasis]

\* struct Individual; genotype maps the gene ids that have an entry to allele lists
Individual(sex, genotype) == [sex |-> sex, genotype |-> genotype]

\* an unordered_map with no entry
EmptyMap == [k \in {} |-> << >>]

\* map[key] = value
MapPut(map, key, value) ==
    [k \in (DOMAIN map) \cup {key} |-> IF k = key THEN value ELSE map[k]]

AlleleIds(gene) == [i \in 1..Len(gene.alleles) |-> gene.alleles[i].id]

GeneIds(config) == [i \in 1..Len(config.genes) |-> config.genes[i].id]

(***************************************************************************)
(* Engine::Engine (Engine.cpp 142-175).                                    *)
(***************************************************************************)
gatherTraitIds(gene) ==
    LET all == Flatten([i \in 1..Len(gene.alleles) |->
                   [j \in 1..Len(gene.alleles[i].effects) |->
                       gene.alleles[i].effects[j].traitId]])
        named == Unique(SelectSeq(all, LAMBDA t : t # ""))
    IN  IF named = << >> THEN <<gene.id>> ELSE named

\* the loop body without the check of the emplace into alleleMap
GeneConfigErrorNoDuplicateCheck(gene) ==
    IF gene.alleles = << >> THEN "invalid_argument"
    ELSE IF gene.defaultAlleleId # "" /\ ~Contains(AlleleIds(gene), gene.defaultAlleleId)
         THEN "invalid_argument"
    ELSE "none"

\* the exception the constructor's loop body throws for one gene, or "none"
GeneConfigError(gene) ==
    IF gene.alleles = << >> THEN "invalid_argument"
    ELSE IF \E i, j \in 1..Len(gene.alleles) : i # j /\ gene.alleles[i].id = gene.alleles[j].id
         THEN "invalid_argument"
    ELSE IF gene.defaultAlleleId # "" /\ ~Contains(AlleleIds(gene), gene.defaultAlleleId)
         THEN "invalid_argument"
    ELSE "none"

\* the gene as the constructor leaves it in config_: an empty default becomes the
\* first allele
WithDefault(gene) ==
    IF gene.defaultAlleleId = "" /\ gene.alleles # << >>
    THEN [gene EXCEPT !.defaultAlleleId = gene.alleles[1].id]
    ELSE gene

LinkageGroups(config) ==
    { config.genes[i].linkageGroup[1] :
        i \in { k \in 1..Len(config.genes) : config.genes[k].linkageGroup # << >> } }

\* the constructor: [err, value], value the Engine (config_, linkageMap_,
\* linkageTraitIds_; geneIndex_ and alleleIndex_ are the lookups findGene and
\* requireAllele below make in config_).  linkageMap_ holds gene ids for the
\* pointers of the code.
EngineCtor(config) ==
    IF \E i \in 1..Len(config.genes) : GeneConfigError(config.genes[i]) # "none"
    THEN [err |-> "invalid_argument", value |-> << >>]
    ELSE LET genes == [i \in 1..Len(config.genes) |-> WithDefault(config.genes[i])]
             cfg == [config EXCEPT !.genes = genes]
             members(grp) == SelectSeq(genes, LAMBDA g : g.linkageGroup = <<grp>>)
         IN  [err |-> "none",
              value |-> <<[config |-> cfg,
                           linkageMap |-> [grp \in LinkageGroups(cfg) |->
                               [i \in 1..Len(members(grp)) |-> members(grp)[i].id]],
                           linkageTraitIds |-> [grp \in LinkageGroups(cfg) |->
                               Unique(Flatten([i \in 1..Len(members(grp)) |->
                                   gatherTraitIds(members(grp)[i])]))]]>>]

\* Engine::findGene: <<gene>> or << >> for nullptr
findGene(eng, geneId) ==
    SelectSeq(eng.config.genes, LAMBDA g : g.id = geneId)

GeneById(eng, geneId) == findGene(eng, geneId)[1]

\* Engine::requireAllele: [err, value]
requireAllele(eng, gene, alleleId) ==
    LET hit == SelectSeq(gene.alleles, LAMBDA a : a.id = alleleId)
    IN  IF findGene(eng, gene.id) = << >> \/ hit = << >>
        THEN [err |-> "invalid_argument", value |-> << >>]
        ELSE [err |-> "none", value |-> <<hit[1]>>]

AlleleById(eng, gene, alleleId) == requireAllele(eng, gene, alleleId).value[1]

(***************************************************************************)
(* Engine::normalizedGenotype (Engine.cpp 438-498), the same code as       *)
(* GenotypeNormalizer::normalize (GenotypeNormalizer.cpp 23-87).           *)
(***************************************************************************)
Ok(value) == [err |-> "none", value |-> value]

Throw(err) == [err |-> err, value |-> << >>]

\* ensureTwoAlleles with a fault: a single allele is paired with the default
\* allele instead of being duplicated
ensureTwoAllelesPadDefault(eng, gene, provided) ==
    IF provided = << >> THEN Ok(<<gene.defaultAlleleId, gene.defaultAlleleId>>)
    ELSE IF Len(provided) = 1
         THEN IF requireAllele(eng, gene, provided[1]).err # "none"
              THEN Throw("invalid_argument")
              ELSE Ok(<<provided[1], gene.defaultAlleleId>>)
    ELSE IF Len(provided) = 2
         THEN IF requireAllele(eng, gene, provided[1]).err # "none"
                 \/ requireAllele(eng, gene, provided[2]).err # "none"
              THEN Throw("invalid_argument")
              ELSE Ok(provided)
    ELSE Throw("invalid_argument")

\* ensureTwoAlleles with a fault: a supplied pair comes back in reverse order
ensureTwoAllelesReversed(eng, gene, provided) ==
    IF provided = << >> THEN Ok(<<gene.defaultAlleleId, gene.defaultAlleleId>>)
    ELSE IF Len(provided) = 1
         THEN IF requireAllele(eng, gene, provided[1]).err # "none"
              THEN Throw("invalid_argument")
              ELSE Ok(<<provided[1], provided[1]>>)
    ELSE IF Len(provided) = 2
         THEN IF requireAllele(eng, gene, provided[1]).err # "none"
                 \/ requireAllele(eng, gene, provided[2]).err # "none"
              THEN Throw("invalid_argument")
              ELSE Ok(<<provided[2], provided[1]>>)
    ELSE Throw("invalid_argument")

\* the lambda ensureTwoAlleles
ensureTwoAlleles(eng, gene, provided) ==
    IF provided = << >> THEN Ok(<<gene.defaultAlleleId, gene.defaultAlleleId>>)
    ELSE IF Len(provided) = 1
         THEN IF requireAllele(eng, gene, provided[1]).err # "none"
              THEN Throw("invalid_argument")
              ELSE Ok(<<provided[1], provided[1]>>)
    ELSE IF Len(provided) = 2
         THEN IF requireAllele(eng, gene, provided[1]).err # "none"
                 \/ requireAllele(eng, gene, provided[2]).err # "none"
              THEN Throw("invalid_argument")
              ELSE Ok(provided)
    ELSE Throw("invalid_argument")

\* the male branch with a fault: the size check forgotten, so that a pair of
\* defined alleles is accepted
ensureOneAlleleUnbounded(eng, gene, provided) ==
    IF provided = << >> THEN Ok(<<gene.defaultAlleleId>>)
    ELSE IF \E k \in 1..Len(provided) : requireAllele(eng, gene, provided[k]).err # "none"
         THEN Throw("invalid_argument")
         ELSE Ok(provided)

\* the branch shared by a male's X-linked and Y-linked genes
ensureOneAllele(eng, gene, provided) ==
    IF provided = << >> THEN Ok(<<gene.defaultAlleleId>>)
    ELSE IF Len(provided) = 1
         THEN IF requireAllele(eng, gene, provided[1]).err # "none"
              THEN Throw("invalid_argument")
              ELSE Ok(provided)
    ELSE Throw("invalid_argument")

normalizedGenotype(eng, gene, provided, sex) ==
    CASE gene.chromosome = "Autosomal" -> ensureTwoAlleles(eng, gene, provided)
      [] gene.chromosome = "X" ->
            IF sex = Female THEN ensureTwoAlleles(eng, gene, provided)
            ELSE ensureOneAllele(eng, gene, provided)
      [] gene.chromosome = "Y" ->
            IF sex = Female
            THEN IF provided # << >> THEN Throw("invalid_argument") ELSE Ok(provided)
            ELSE ensureOneAllele(eng, gene, provided)

(***************************************************************************)
(* Engine::createIndividual (Engine.cpp 177-191).                          *)
(***************************************************************************)
\* what createIndividual hands to normalizedGenotype for a gene
Supplied(genotype, geneId) ==
    IF geneId \in DOMAIN genotype THEN genotype[geneId] ELSE << >>

createIndividual(eng, sex, genotype) ==
    LET genes == eng.config.genes
        norm(i) == normalizedGenotype(eng, genes[i], Supplied(genotype, genes[i].id), sex)
    IN  IF \E i \in 1..Len(genes) : norm(i).err # "none"
        THEN Throw("invalid_argument")
        ELSE Ok(<<Individual(sex, [id \in Range(GeneIds(eng.config)) |->
                    normalizedGenotype(eng, GeneById(eng, id),
                                       Supplied(genotype, id), sex).value])>>)

(***************************************************************************)
(* Engine::generateGamete and generateGameteForGroup (Engine.cpp 508-656), *)
(* the same code as GameteGenerator (GameteGenerator.cpp).                 *)
(*                                                                         *)
(* The draws from the std::mt19937 are the fields of rnd:                  *)
(*   passesX        decide(rng) of a male parent;                          *)
(*   idx[gene]      chooseAllele(rng) of an unlinked gene;                 *)
(*   pick[group]    pick(rng), the anchor homolog of a linkage group;      *)
(*   crossover[gene] crossover(rng) of a linked gene.                      *)
(***************************************************************************)
\* the outcomes of std::bernoulli_distribution(p)
\* a distribution with a fault: both outcomes whatever the probability
BernoulliAnyOutcome(p) == BOOLEAN

\* std::bernoulli_distribution(p): the outcomes it can give
Bernoulli(p) == IF p <= 0 THEN {FALSE} ELSE IF p >= One THEN {TRUE} ELSE BOOLEAN

BoolToIndex(b) == IF b THEN 1 ELSE 0

\* every sequence of draws one generateGamete call can make for this parent: an
\* unlinked gene draws when it stores two alleles it can pass on, a group draws its
\* anchor, a linked gene draws its crossover
RndSpace(eng, parent, sex) ==
    LET genes == eng.config.genes
        draws(g) == /\ g.id \in DOMAIN parent.genotype
                    /\ Len(parent.genotype[g.id]) >= 2
                    /\ g.chromosome = "Autosomal" \/ (g.chromosome = "X" /\ sex = Female)
        unlinked == { genes[i].id : i \in { k \in 1..Len(genes) :
                        genes[k].linkageGroup = << >> /\ draws(genes[k]) } }
        linked == { genes[i].id : i \in { k \in 1..Len(genes) : genes[k].linkageGroup # << >> } }
    IN  { [passesX |-> px, idx |-> ix, pick |-> pk, crossover |-> co] :
            px \in (IF sex = Male THEN Bernoulli(Half) ELSE {TRUE}),
            ix \in [unlinked -> {BoolToIndex(b) : b \in Bernoulli(Half)}],
            pk \in [DOMAIN eng.linkageMap -> {BoolToIndex(b) : b \in Bernoulli(Half)}],
            co \in { f \in [linked -> BOOLEAN] :
                       \A id \in linked :
                           f[id] \in Bernoulli(GeneById(eng, id).recombinationProbability) } }

\* struct Gamete
Gamete(alleles, carriesX, carriesY) ==
    [alleles |-> alleles, carriesX |-> carriesX, carriesY |-> carriesY]

\* gamete.alleles[gene.id] = allele, and the carriesX / carriesY flag of the gene
takeAllele(gamete, gene, allele) ==
    [alleles |-> MapPut(gamete.alleles, gene.id, allele),
     carriesX |-> gamete.carriesX \/ gene.chromosome = "X",
     carriesY |-> gamete.carriesY \/ gene.chromosome = "Y"]

\* the loop state of generateGameteForGroup
GroupState(err, gamete, anchorSet, homologIndex) ==
    [err |-> err, gamete |-> gamete, anchorSet |-> anchorSet, homologIndex |-> homologIndex]

\* the iteration with a fault: an X-linked gene of a male is never skipped
GroupStepKeepsX(eng, st, geneId, parent, parentPassesX, grp, rnd) ==
    LET gene == GeneById(eng, geneId)
        alleles == parent.genotype[geneId]
        skipGene == \/ gene.chromosome = "Y" /\ parent.sex = Male /\ parentPassesX
                    \/ gene.chromosome = "Y" /\ parent.sex = Female
        homolog == IF ~st.anchorSet THEN rnd.pick[grp]
                   ELSE IF rnd.crossover[geneId] THEN 1 - st.homologIndex
                   ELSE st.homologIndex
    IN  IF st.err # "none" THEN st
        ELSE IF geneId \notin DOMAIN parent.genotype
             THEN [st EXCEPT !.err = "runtime_error"]
        ELSE IF alleles = << >> \/ skipGene THEN st
        ELSE IF Len(alleles) <= 1
             THEN [st EXCEPT !.gamete = takeAllele(st.gamete, gene, alleles[1])]
        ELSE GroupState("none", takeAllele(st.gamete, gene, alleles[homolog + 1]),
                        TRUE, homolog)

\* one iteration of the loop over the genes of a group
GroupStep(eng, st, geneId, parent, parentPassesX, grp, rnd) ==
    LET gene == GeneById(eng, geneId)
        alleles == parent.genotype[geneId]
        skipGene == \/ gene.chromosome = "X" /\ parent.sex = Male /\ ~parentPassesX
                    \/ gene.chromosome = "Y" /\ parent.sex = Male /\ parentPassesX
                    \/ gene.chromosome = "Y" /\ parent.sex = Female
        homolog == IF ~st.anchorSet THEN rnd.pick[grp]
                   ELSE IF rnd.crossover[geneId] THEN 1 - st.homologIndex
                   ELSE st.homologIndex
    IN  IF st.err # "none" THEN st
        ELSE IF geneId \notin DOMAIN parent.genotype
             THEN [st EXCEPT !.err = "runtime_error"]
        ELSE IF alleles = << >> \/ skipGene THEN st
        ELSE IF Len(alleles) <= 1
             THEN [st EXCEPT !.gamete = takeAllele(st.gamete, gene, alleles[1])]
        ELSE GroupState("none", takeAllele(st.gamete, gene, alleles[homolog + 1]),
                        TRUE, homolog)

RECURSIVE GroupLoop(_, _, _, _, _, _, _)
GroupLoop(eng, st, group, parent, parentPassesX, grp, rnd) ==
    IF group = << >> THEN st
    ELSE GroupLoop(eng, GroupStep(eng, st, Head(group), parent, parentPassesX, grp, rnd),
                   Tail(group), parent, parentPassesX, grp, rnd)

\* [err, value]: value the gamete after the group
generateGameteForGroup(eng, grp, parent, gamete, parentPassesX, rnd) ==
    LET st == GroupLoop(eng, GroupState("none", gamete, FALSE, 0), eng.linkageMap[grp],
                        parent, parentPassesX, grp, rnd)
    IN  [err |-> st.err, value |-> st.gamete]

RECURSIVE GroupsLoop(_, _, _, _, _, _)
\* the loop over linkageMap_ (its groups taken in ascending id: they share no gene,
\* so the order changes no result)
GroupsLoop(eng, groups, parent, res, parentPassesX, rnd) ==
    IF groups = {} \/ res.err # "none" THEN res
    ELSE LET grp == CHOOSE g \in groups : \A h \in groups : g <= h
         IN  GroupsLoop(eng, groups \ {grp}, parent,
                        generateGameteForGroup(eng, grp, parent, res.value, parentPassesX, rnd),
                        parentPassesX, rnd)

\* one iteration of the loop over the unlinked genes; res is [err, value]
UnlinkedStep(res, gene, parent, sex, passesX, rnd) ==
    LET alleles == parent.genotype[gene.id]
        take(a) == Ok(takeAllele(res.value, gene, a))
    IN  IF res.err # "none" \/ gene.linkageGroup # << >> THEN res
        ELSE IF gene.id \notin DOMAIN parent.genotype THEN Throw("runtime_error")
        ELSE CASE gene.chromosome = "Autosomal" ->
                    IF alleles = << >> THEN Throw("runtime_error")
                    ELSE IF Len(alleles) = 1 THEN take(alleles[1])
                    ELSE take(alleles[rnd.idx[gene.id] + 1])
               [] gene.chromosome = "X" ->
                    IF sex = Female
                    THEN IF Len(alleles) = 1 THEN take(alleles[1])
                         ELSE IF Len(alleles) = 2 THEN take(alleles[rnd.idx[gene.id] + 1])
                         ELSE Throw("runtime_error")
                    ELSE IF passesX
                         THEN IF alleles = << >> THEN Throw("runtime_error")
                              ELSE take(alleles[1])
                    ELSE res
               [] gene.chromosome = "Y" ->
                    IF sex = Male /\ ~passesX
                    THEN IF alleles = << >> THEN Throw("runtime_error")
                         ELSE take(alleles[1])
                    ELSE res

RECURSIVE UnlinkedLoop(_, _, _, _, _, _)
UnlinkedLoop(res, genes, parent, sex, passesX, rnd) ==
    IF genes = << >> THEN res
    ELSE UnlinkedLoop(UnlinkedStep(res, Head(genes), parent, sex, passesX, rnd),
                      Tail(genes), parent, sex, passesX, rnd)

\* [err, value]: value the Gamete
generateGamete(eng, parent, sex, rnd) ==
    LET passesX == IF sex = Male THEN rnd.passesX ELSE TRUE
        start == IF sex = Male THEN Gamete(EmptyMap, passesX, ~passesX)
                 ELSE Gamete(EmptyMap, TRUE, FALSE)
        grouped == GroupsLoop(eng, DOMAIN eng.linkageMap, parent, Ok(start), passesX, rnd)
    IN  UnlinkedLoop(grouped, eng.config.genes, parent, sex, passesX, rnd)

(***************************************************************************)
(* Engine::mate (Engine.cpp 193-264).                                      *)
(***************************************************************************)
\* the iteration with a fault: an autosomal pair is stored father first
ChildStepPaternalFirst(res, gene, maternal, paternal, childSex) ==
    LET inMat == gene.id \in DOMAIN maternal.alleles
        inPat == gene.id \in DOMAIN paternal.alleles
        put(genotype) == Ok(MapPut(res.value, gene.id, genotype))
    IN  IF res.err # "none" THEN res
        ELSE CASE gene.chromosome = "Autosomal" ->
                    IF ~inMat \/ ~inPat THEN Throw("runtime_error")
                    ELSE put(<<paternal.alleles[gene.id], maternal.alleles[gene.id]>>)
               [] gene.chromosome = "X" ->
                    IF ~inMat THEN Throw("runtime_error")
                    ELSE IF childSex = Female
                         THEN IF ~inPat THEN Throw("runtime_error")
                              ELSE put(<<maternal.alleles[gene.id], paternal.alleles[gene.id]>>)
                    ELSE put(<<maternal.alleles[gene.id]>>)
               [] gene.chromosome = "Y" ->
                    IF childSex = Male
                    THEN IF ~inPat THEN Throw("runtime_error")
                         ELSE put(<<paternal.alleles[gene.id]>>)
                    ELSE res

\* one iteration of the loop that builds childGenotype; res is [err, value]
ChildStep(res, gene, maternal, paternal, childSex) ==
    LET inMat == gene.id \in DOMAIN maternal.alleles
        inPat == gene.id \in DOMAIN paternal.alleles
        put(genotype) == Ok(MapPut(res.value, gene.id, genotype))
    IN  IF res.err # "none" THEN res
        ELSE CASE gene.chromosome = "Autosomal" ->
                    IF ~inMat \/ ~inPat THEN Throw("runtime_error")
                    ELSE put(<<maternal.alleles[gene.id], paternal.alleles[gene.id]>>)
               [] gene.chromosome = "X" ->
                    IF ~inMat THEN Throw("runtime_error")
                    ELSE IF childSex = Female
                         THEN IF ~inPat THEN Throw("runtime_error")
                              ELSE put(<<maternal.alleles[gene.id], paternal.alleles[gene.id]>>)
                    ELSE put(<<maternal.alleles[gene.id]>>)
               [] gene.chromosome = "Y" ->
                    IF childSex = Male
                    THEN IF ~inPat THEN Throw("runtime_error")
                         ELSE put(<<paternal.alleles[gene.id]>>)
                    ELSE res

RECURSIVE ChildLoop(_, _, _, _, _)
ChildLoop(res, genes, maternal, paternal, childSex) ==
    IF genes = << >> THEN res
    ELSE ChildLoop(ChildStep(res, Head(genes), maternal, paternal, childSex),
                   Tail(genes), maternal, paternal, childSex)

\* the child built from the two gametes: [err, value], value <<Individual>>
Conceive(eng, maternal, paternal) ==
    LET childSex == IF paternal.carriesY THEN Male ELSE Female
        built == ChildLoop(Ok(EmptyMap), eng.config.genes, maternal, paternal, childSex)
    IN  IF built.err # "none" THEN built
        ELSE Ok(<<Individual(childSex, built.value)>>)

\* a male pointer that is never null: the second parent stands in for a missing male
MaleOfOrSecondParent(firstParent, secondParent) ==
    IF firstParent.sex = Male /\ secondParent.sex # Male THEN <<firstParent>>
    ELSE <<secondParent>>

\* the male and the female mate finds among its arguments: << >> for nullptr
MaleOf(firstParent, secondParent) ==
    IF secondParent.sex = Male THEN <<secondParent>>
    ELSE IF firstParent.sex = Male THEN <<firstParent>>
    ELSE << >>

FemaleOf(firstParent, secondParent) ==
    IF secondParent.sex # Male THEN <<secondParent>>
    ELSE IF firstParent.sex # Male THEN <<firstParent>>
    ELSE << >>

\* a call that draws nothing
NoDraws == [passesX |-> TRUE, idx |-> EmptyMap, pick |-> EmptyMap, crossover |-> EmptyMap]

\* the draws of the two generateGamete calls of mate; none when mate throws first
MaternalDraws(eng, firstParent, secondParent) ==
    IF MaleOf(firstParent, secondParent) = << >> \/ FemaleOf(firstParent, secondParent) = << >>
    THEN {NoDraws}
    ELSE RndSpace(eng, FemaleOf(firstParent, secondParent)[1], Female)

PaternalDraws(eng, firstParent, secondParent) ==
    IF MaleOf(firstParent, secondParent) = << >> \/ FemaleOf(firstParent, secondParent) = << >>
    THEN {NoDraws}
    ELSE RndSpace(eng, MaleOf(firstParent, secondParent)[1], Male)

\* mate with the draws of the maternal and of the paternal gamete:
\* [err, value, maternal, paternal]; the maternal gamete is generated first
mate(eng, firstParent, secondParent, rndM, rndP) ==
    LET male == MaleOf(firstParent, secondParent)
        female == FemaleOf(firstParent, secondParent)
        none == [err |-> "invalid_argument", value |-> << >>,
                 maternal |-> << >>, paternal |-> << >>]
    IN  IF male = << >> \/ female = << >> THEN none
        ELSE LET maternal == generateGamete(eng, female[1], Female, rndM)
             IN  IF maternal.err # "none"
                 THEN [none EXCEPT !.err = maternal.err]
                 ELSE LET paternal == generateGamete(eng, male[1], Male, rndP)
                      IN  IF paternal.err # "none"
                          THEN [none EXCEPT !.err = paternal.err,
                                            !.maternal = <<maternal.value>>]
                          ELSE LET child == Conceive(eng, maternal.value, paternal.value)
                               IN  [err |-> child.err, value |-> child.value,
                                    maternal |-> <<maternal.value>>,
                                    paternal |-> <<paternal.value>>]

(***************************************************************************)
(* Configurations the engine is run on.                                    *)
(***************************************************************************)
NoGroup == << >>

\* examples/test_mendelian.cpp 17-24
EyeColor ==
    GeneDefinition("eye_color", "Autosomal", "Complete", NoGroup, Half, Half, "B",
        <<AlleleDefinition("B", 1, <<AlleleEffect("eye_color", One, "Brown", "")>>),
          AlleleDefinition("b", 0, <<AlleleEffect("eye_color", 0, "Blue", "")>>)>>)

\* examples/demo.cpp 79-87; linkageGroup is a parameter
Vision(linkageGroup) ==
    GeneDefinition("vision", "X", "Complete", linkageGroup, Half, Half, "C",
        <<AlleleDefinition("C", 1, <<AlleleEffect("vision", One, "normal color vision", "")>>),
          AlleleDefinition("c", 0, <<AlleleEffect("vision", 0, "colorblind", "")>>)>>)

\* a Y-linked gene; its default allele is left empty for the constructor to fill
HairyEars(linkageGroup) ==
    GeneDefinition("hairy_ears", "Y", "Complete", linkageGroup, Half, Half, "",
        <<AlleleDefinition("H", 1, <<AlleleEffect("ears", One, "hairy", "")>>),
          AlleleDefinition("h", 0, <<AlleleEffect("ears", 0, "smooth", "")>>)>>)

\* a Y-linked gene with a single allele
Holandric(linkageGroup) ==
    GeneDefinition("holandric", "Y", "Complete", linkageGroup, Half, Half, "",
        <<AlleleDefinition("H", 1, <<AlleleEffect("ears", One, "hairy", "")>>)>>)

\* the configurations of the mating runs: autosomal, X-linked and Y-linked genes,
\* unlinked and in one linkage group
MatingConfigs ==
    { EngineConfig(<<EyeColor, Holandric(NoGroup)>>, << >>),
      EngineConfig(<<Vision(NoGroup), Holandric(NoGroup)>>, << >>),
      EngineConfig(<<Vision(<<1>>), Holandric(<<1>>)>>, << >>),
      EngineConfig(<<HairyEars(NoGroup)>>, << >>) }

\* the Engines that construction yields for a set of configurations
Engines(configs) ==
    { EngineCtor(c).value[1] : c \in { k \in configs : EngineCtor(k).err = "none" } }

\* the allele lists a caller supplies for a gene: none, one or two of its alleles
SuppliedLists(gene) ==
    LET ids == Range(AlleleIds(gene))
    IN  {<< >>} \cup { <<a>> : a \in ids } \cup { <<a, b>> : a \in ids, b \in ids }

\* the genotype maps a caller passes to createIndividual
SuppliedGenotypes(eng) ==
    { g \in [Range(GeneIds(eng.config)) -> UNION { SuppliedLists(eng.config.genes[i]) :
                                                     i \in 1..Len(eng.config.genes) }] :
        \A id \in DOMAIN g : g[id] \in SuppliedLists(GeneById(eng, id)) }

\* a gene id no configuration defines
UnknownGene == "unknown"

\* the genotype maps of a caller that may also reference a gene the configuration
\* does not define, next to at most one allele for each gene it defines
ReferencedGenotypes(eng) ==
    SuppliedGenotypes(eng)
        \cup { MapPut(g, UnknownGene, <<"B">>) :
                 g \in { h \in SuppliedGenotypes(eng) : \A id \in DOMAIN h : Len(h[id]) <= 1 } }

(***************************************************************************)
(* The engine and its caller as a state machine.                           *)
(***************************************************************************)
NoCall == [op |-> "none"]

\* no ThreadPool object
NoPool == << >>

Init ==
    /\ engine \in Engines(MatingConfigs)
    /\ individuals = {}
    /\ lastCall = NoCall
    /\ lastErr = "none"
    /\ args = NoCall
    /\ result = NoCall
    /\ pool = NoPool

\* the caller keeps the Individual a call returned
Keep(res) == IF res.err = "none" THEN individuals \cup {res.value[1]} ELSE individuals

\* a call of createIndividual
CreateIndividual(sex, genotype) ==
    /\ Cardinality(individuals) < MaxIndividuals
    /\ LET res == createIndividual(engine, sex, genotype)
       IN  /\ lastCall' = [op |-> "createIndividual", sexes |-> <<sex>>,
                            unknown |-> UnknownGene \in DOMAIN genotype]
           /\ lastErr' = res.err
           /\ individuals' = Keep(res)
    /\ UNCHANGED <<engine, args, result, pool>>

\* a call of mate on two Individuals the caller holds
Mate(firstParent, secondParent, rndM, rndP) ==
    /\ Cardinality(individuals) < MaxIndividuals
    /\ LET res == mate(engine, firstParent, secondParent, rndM, rndP)
       IN  /\ lastCall' = [op |-> "mate", sexes |-> <<firstParent.sex, secondParent.sex>>]
           /\ lastErr' = res.err
           /\ individuals' = Keep(res)
    /\ UNCHANGED <<engine, args, result, pool>>

\* the caller lets go of an Individual (examples/demo.cpp 140-152: child)
Release(individual) ==
    /\ individuals' = individuals \ {individual}
    /\ UNCHANGED <<engine, lastCall, lastErr, args, result, pool>>

Next ==
    \/ \E sex \in Sex, genotype \in ReferencedGenotypes(engine) :
            CreateIndividual(sex, genotype)
    \/ \E firstParent \in individuals, secondParent \in individuals :
            \E rndM \in MaternalDraws(engine, firstParent, secondParent),
               rndP \in PaternalDraws(engine, firstParent, secondParent) :
                Mate(firstParent, secondParent, rndM, rndP)
    \/ \E individual \in individuals : Release(individual)

Spec == Init /\ [][Next]_vars

(***************************************************************************)
(* Claims about the Individuals of the engine.                             *)
(***************************************************************************)
MatedPair == {<<Male, Female>>, <<Female, Male>>}

\* the number of alleles a normalized genotype holds for a gene
ExpectedCount(gene, sex) ==
    IF gene.chromosome = "Autosomal" \/ (gene.chromosome = "X" /\ sex = Female) THEN 2
    ELSE IF sex = Male THEN 1
    ELSE 0

FullyNormalized(eng, individual) ==
    \A i \in 1..Len(eng.config.genes) :
        LET gene == eng.config.genes[i]
        IN  /\ gene.id \in DOMAIN individual.genotype
            /\ Len(individual.genotype[gene.id]) = ExpectedCount(gene, individual.sex)
            /\ \A k \in 1..Len(individual.genotype[gene.id]) :
                   Contains(AlleleIds(gene), individual.genotype[gene.id][k])

\* C1: every Individual createIndividual or mate returned has an entry for every
\* gene of the configuration, with the allele count of its chromosome type and sex
\* (2 autosomal or female X, 1 male X or Y, 0 female Y) and only defined alleles.
C1_ReturnedIndividualsNormalized ==
    \A individual \in individuals : FullyNormalized(engine, individual)

\* C2: mate on one male and one female that the engine returned never ends with a
\* consistency error (std::runtime_error).
C2_MateNeverInconsistent ==
    ~(lastCall.op = "mate" /\ lastCall.sexes \in MatedPair /\ lastErr = "runtime_error")

SexLinked(gene) == gene.chromosome \in {"X", "Y"}

\* a genotype map that supplies two or more alleles for an X- or Y-linked gene
SuppliesSexLinkedPair(eng, genotype) ==
    \E i \in 1..Len(eng.config.genes) :
        /\ SexLinked(eng.config.genes[i])
        /\ Len(Supplied(genotype, eng.config.genes[i].id)) >= 2

\* C10: no male Individual the engine returned, from createIndividual or as a child
\* of mate in any generation, holds two alleles for an X- or Y-linked gene, and
\* createIndividual rejects every male input that supplies two such alleles.
C10_MaleNeverTwoSexLinked ==
    /\ \A individual \in individuals :
           individual.sex = Male =>
               \A i \in 1..Len(engine.config.genes) :
                   LET gene == engine.config.genes[i]
                   IN  (SexLinked(gene) /\ gene.id \in DOMAIN individual.genotype)
                           => Len(individual.genotype[gene.id]) <= 1
    /\ \A genotype \in SuppliedGenotypes(engine) :
           SuppliesSexLinkedPair(engine, genotype)
               => createIndividual(engine, Male, genotype).err = "invalid_argument"

\* a son of a mating is held, and a male input with two sex-linked alleles can be made
C10_Witness ==
    /\ lastCall.op = "mate" /\ lastErr = "none"
    /\ \E individual \in individuals :
           /\ individual.sex = Male
           /\ \E i \in 1..Len(engine.config.genes) :
                  /\ engine.config.genes[i].chromosome = "X"
                  /\ Len(individual.genotype[engine.config.genes[i].id]) = 1
    /\ \E genotype \in SuppliedGenotypes(engine) : SuppliesSexLinkedPair(engine, genotype)

\* C11: createIndividual fails whenever the supplied genotype map references a gene
\* id the configuration does not define; it never returns an Individual for it.
C11_UnknownGeneRejected ==
    (lastCall.op = "createIndividual" /\ lastCall.unknown) => lastErr = "invalid_argument"

\* C12: mate succeeds only on one Male and one Female, in either argument order;
\* on two males or two females it ends with an error, whatever the draws, and hands
\* back no child.
C12_MateNeedsOneOfEachSex ==
    /\ lastCall.op = "mate" =>
           /\ lastErr = "none" => lastCall.sexes \in MatedPair
           /\ lastCall.sexes \notin MatedPair => lastErr = "invalid_argument"
    /\ \A firstParent \in individuals, secondParent \in individuals :
           firstParent.sex = secondParent.sex =>
               \A rndM \in MaternalDraws(engine, firstParent, secondParent),
                  rndP \in PaternalDraws(engine, firstParent, secondParent) :
                   LET res == mate(engine, firstParent, secondParent, rndM, rndP)
                   IN  res.err = "invalid_argument" /\ res.value = << >>

\* mate has been refused on two parents of one sex, and has succeeded on a pair
C12_Witness ==
    /\ lastCall.op = "mate" /\ lastCall.sexes \notin MatedPair
    /\ lastErr = "invalid_argument"
    /\ \E individual \in individuals :
           \E other \in individuals : individual.sex # other.sex

(***************************************************************************)
(* Construction as a function: runs that draw a configuration, valid or    *)
(* not, and construct an Engine from it.                                   *)
(***************************************************************************)
\* an allele id no gene defines
UndefinedAllele == "?"

RECURSIVE ListsUpTo(_, _)
\* the lists of at most n elements of a set
ListsUpTo(set, n) ==
    IF n = 0 THEN {<< >>}
    ELSE LET shorter == ListsUpTo(set, n - 1)
         IN  shorter \cup { Append(l, x) : l \in shorter, x \in set }

\* no Engine object
NoEngine == << >>

\* the allele lists and default allele ids of the drawn genes: empty lists, repeated
\* ids, empty, defined and undefined defaults
DrawnAlleleLists == ListsUpTo({"B", "b"}, 2)

DrawnDefaults == {"", "B", "b", UndefinedAllele}

DrawnAllele(id) ==
    AlleleDefinition(id, IF id = "B" THEN 1 ELSE 0, <<AlleleEffect("trait", One, id, "")>>)

DrawnGenes(geneId) ==
    { GeneDefinition(geneId, "Autosomal", "Complete", NoGroup, Half, Half, default,
                     [i \in 1..Len(ids) |-> DrawnAllele(ids[i])]) :
        ids \in DrawnAlleleLists, default \in DrawnDefaults }

\* configurations of one gene and of two genes
DrawnConfigs ==
    { EngineConfig(<<g>>, << >>) : g \in DrawnGenes("first") }
        \cup { EngineConfig(<<g, h>>, << >>) :
                 g \in DrawnGenes("first"), h \in DrawnGenes("second") }

InitCtor ==
    /\ engine = NoEngine
    /\ individuals = {}
    /\ lastCall = NoCall
    /\ lastErr = "none"
    /\ args \in { [op |-> "inputs", config |-> c] : c \in DrawnConfigs }
    /\ result = NoCall
    /\ pool = NoPool

\* Engine engine(config)
Construct ==
    /\ args.op = "inputs"
    /\ LET res == EngineCtor(args.config)
       IN  /\ engine' = IF res.err = "none" THEN res.value[1] ELSE NoEngine
           /\ lastErr' = res.err
    /\ args' = [args EXCEPT !.op = "Engine"]
    /\ lastCall' = [op |-> "Engine"]
    /\ UNCHANGED <<individuals, result, pool>>

NextCtor == Construct

SpecCtor == InitCtor /\ [][NextCtor]_vars

\* a gene the constructor must refuse: no allele, an allele id used twice, or a
\* non-empty default that is none of its alleles
Malformed(gene) ==
    \/ Len(gene.alleles) = 0
    \/ Cardinality({ gene.alleles[i].id : i \in 1..Len(gene.alleles) }) < Len(gene.alleles)
    \/ /\ gene.defaultAlleleId # ""
       /\ \A i \in 1..Len(gene.alleles) : gene.alleles[i].id # gene.defaultAlleleId

\* C13: construction fails and creates no Engine whenever some gene has no allele,
\* two alleles of one id or an undefined non-empty default; after a successful
\* construction every gene's default is one of its alleles, an empty default
\* having become the first allele.
C13_ConstructionValidates ==
    args.op = "Engine" =>
        LET drawn == args.config.genes
        IN  /\ (\E i \in 1..Len(drawn) : Malformed(drawn[i]))
                   => (lastErr = "invalid_argument" /\ engine = NoEngine)
            /\ lastErr = "none" =>
                   /\ engine # NoEngine
                   /\ Len(engine.config.genes) = Len(drawn)
                   /\ \A i \in 1..Len(drawn) :
                          LET gene == engine.config.genes[i]
                          IN  /\ \E k \in 1..Len(gene.alleles) :
                                     gene.alleles[k].id = gene.defaultAlleleId
                              /\ drawn[i].defaultAlleleId = ""
                                     => gene.defaultAlleleId = drawn[i].alleles[1].id
                              /\ drawn[i].defaultAlleleId # ""
                                     => gene.defaultAlleleId = drawn[i].defaultAlleleId

\* an Engine was constructed from a gene with an empty default
C13_Witness ==
    /\ args.op = "Engine" /\ lastErr = "none" /\ engine # NoEngine
    /\ \E i \in 1..Len(args.config.genes) :
           /\ args.config.genes[i].defaultAlleleId = ""
           /\ engine.config.genes[i].defaultAlleleId = "b"

(***************************************************************************)
(* Normalization as a function: runs that call normalizedGenotype on every *)
(* gene, sex and supplied allele list, and again on what it returned.      *)
(***************************************************************************)
NormalizationConfigs ==
    { EngineConfig(<<EyeColor, Vision(NoGroup), HairyEars(NoGroup)>>, << >>) }

\* the allele lists normalization is run on: defined and undefined ids
NormalizationInputs(gene) ==
    ListsUpTo(Range(AlleleIds(gene)) \cup {UndefinedAllele}, MaxSupplied)

InitNorm ==
    /\ engine \in Engines(NormalizationConfigs)
    /\ individuals = {}
    /\ lastCall = NoCall
    /\ lastErr = "none"
    /\ args = NoCall
    /\ result = NoCall
    /\ pool = NoPool

\* normalize(gene, provided, sex)
Normalize(gene, provided, sex) ==
    /\ args' = [op |-> "normalize", gene |-> gene, provided |-> provided, sex |-> sex]
    /\ result' = normalizedGenotype(engine, gene, provided, sex)
    /\ UNCHANGED <<engine, individuals, lastCall, lastErr, pool>>

\* normalize(gene, normalize(gene, g, sex), sex), after a normalize that succeeded
Renormalize ==
    /\ args.op = "normalize"
    /\ result.err = "none"
    /\ args' = [op |-> "renormalize", gene |-> args.gene, provided |-> result.value,
                sex |-> args.sex]
    /\ result' = normalizedGenotype(engine, args.gene, result.value, args.sex)
    /\ UNCHANGED <<engine, individuals, lastCall, lastErr, pool>>

NextNorm ==
    \/ \E i \in 1..Len(engine.config.genes), sex \in Sex :
            \E provided \in NormalizationInputs(engine.config.genes[i]) :
                Normalize(engine.config.genes[i], provided, sex)
    \/ Renormalize

SpecNorm == InitNorm /\ [][NextNorm]_vars

Defined(gene, allele) == Contains(AlleleIds(gene), allele)

\* the genes and sexes that store two alleles, and those that store one
Diploid(gene, sex) ==
    gene.chromosome = "Autosomal" \/ (gene.chromosome = "X" /\ sex = Female)

Hemizygous(gene, sex) == SexLinked(gene) /\ sex = Male

\* C8: normalize returns [default, default], [a, a] or the unchanged pair for 0, 1
\* or 2 defined alleles of an autosomal gene or a female's X-linked gene, [default]
\* or [a] for 0 or 1 defined allele of a male's X- or Y-linked gene, the empty
\* genotype for 0 alleles of a female's Y-linked gene, and fails in every other case.
C8_NormalizeByCase ==
    args.op = "normalize" =>
        LET gene == args.gene
            p == args.provided
            n == Len(p)
            d == gene.defaultAlleleId
            allDefined == \A k \in 1..n : Defined(gene, p[k])
        IN  IF Diploid(gene, args.sex) /\ n = 0 THEN result = Ok(<<d, d>>)
            ELSE IF Diploid(gene, args.sex) /\ n = 1 /\ allDefined
                 THEN result = Ok(<<p[1], p[1]>>)
            ELSE IF Diploid(gene, args.sex) /\ n = 2 /\ allDefined THEN result = Ok(p)
            ELSE IF Hemizygous(gene, args.sex) /\ n = 0 THEN result = Ok(<<d>>)
            ELSE IF Hemizygous(gene, args.sex) /\ n = 1 /\ allDefined THEN result = Ok(p)
            ELSE IF gene.chromosome = "Y" /\ args.sex = Female /\ n = 0
                 THEN result = Ok(<< >>)
            ELSE result.err # "none" /\ result.value = << >>

\* normalize has returned a pair for a single supplied allele, and has failed on a
\* male's second X-linked allele
C8_Witness ==
    /\ args.op = "normalize"
    /\ \/ Len(args.provided) = 1 /\ result.err = "none" /\ Len(result.value) = 2
       \/ /\ args.gene.chromosome = "X" /\ args.sex = Male
          /\ Len(args.provided) = 2 /\ result.err = "invalid_argument"

\* C9: normalizing what normalize returned succeeds and returns it unchanged.
C9_NormalizeIdempotent ==
    args.op = "renormalize" => result = Ok(args.provided)

\* a genotype that normalize had to complete has been normalized again
C9_Witness ==
    /\ args.op = "renormalize"
    /\ Len(args.provided) = 2
    /\ args.provided[1] = args.provided[2]
    /\ result.err = "none"

(***************************************************************************)
(* operator<< of a double on a default std::ostringstream (the format %g   *)
(* with precision 6), used by TraitExpression::summary.                    *)
(***************************************************************************)
DigitChar(d) == CharAt("0123456789", d + 1)

RECURSIVE DigitString(_)
DigitString(ds) == IF ds = << >> THEN "" ELSE DigitChar(Head(ds)) \o DigitString(Tail(ds))

RECURSIVE IntDigits(_)
\* the decimal digits of a positive integer; no digit for 0
IntDigits(n) == IF n = 0 THEN << >> ELSE Append(IntDigits(n \div 10), n % 10)

RECURSIVE FracDigits(_, _)
\* the first k decimal digits of the fraction r / One
FracDigits(r, k) ==
    IF k = 0 THEN << >>
    ELSE <<(r * 10) \div One>> \o FracDigits((r * 10) % One, k - 1)

RECURSIVE StripLeadingZeros(_)
StripLeadingZeros(ds) ==
    IF ds # << >> /\ Head(ds) = 0 THEN StripLeadingZeros(Tail(ds)) ELSE ds

RECURSIVE StripTrailingZeros(_)
StripTrailingZeros(ds) ==
    IF ds # << >> /\ ds[Len(ds)] = 0
    THEN StripTrailingZeros(SubSeq(ds, 1, Len(ds) - 1))
    ELSE ds

RECURSIVE DigitsValue(_)
DigitsValue(ds) ==
    IF ds = << >> THEN 0 ELSE DigitsValue(SubSeq(ds, 1, Len(ds) - 1)) * 10 + ds[Len(ds)]

\* ds padded with zeros on the right, or cut, to n digits
PadRight(ds, n) == [i \in 1..n |-> IF i <= Len(ds) THEN ds[i] ELSE 0]

Zeros(n) == [i \in 1..n |-> 0]

\* the text of the double v / One: six significant digits, rounded half to even,
\* trailing zeros removed, exponent notation from 1e+06 on
FormatDouble(v) ==
    LET a == IF v < 0 THEN 0 - v ELSE v
        sign == IF v < 0 THEN "-" ELSE ""
        int == IntDigits(a \div One)
        \* One is 2^10: ten decimal digits hold the fraction exactly
        exact == int \o FracDigits(a % One, 10)
        sig == StripLeadingZeros(exact)
        exponent == Len(int) - 1 - (Len(exact) - Len(sig))
        kept == PadRight(sig, 6)
        rest == IF Len(sig) > 6 THEN SubSeq(sig, 7, Len(sig)) ELSE << >>
        restValue == StripTrailingZeros(rest)
        up == /\ rest # << >>
              /\ \/ rest[1] > 5
                 \/ rest[1] = 5 /\ (Len(restValue) > 1 \/ kept[6] % 2 = 1)
        rounded == DigitsValue(kept) + (IF up THEN 1 ELSE 0)
        carried == rounded = 1000000
        m == IF carried THEN IntDigits(100000) ELSE IntDigits(rounded)
        x == IF carried THEN exponent + 1 ELSE exponent
        fraction(ds) == IF StripTrailingZeros(ds) = << >> THEN ""
                        ELSE "." \o DigitString(StripTrailingZeros(ds))
    IN  IF a = 0 THEN "0"
        ELSE IF x >= 6
             THEN sign \o DigitString(<<m[1]>>) \o fraction(SubSeq(m, 2, 6)) \o "e+"
                  \o (IF x < 10 THEN "0" ELSE "") \o DigitString(IntDigits(x))
        ELSE IF x >= 0
             THEN sign \o DigitString(SubSeq(m, 1, x + 1)) \o fraction(SubSeq(m, x + 2, 6))
        ELSE sign \o "0" \o fraction(Zeros(0 - x - 1) \o m)

(***************************************************************************)
(* TraitExpression and the anonymous helpers of Engine.cpp.                *)
(***************************************************************************)
\* struct TraitExpression
TraitExpression(quantitative, descriptors) ==
    [quantitative |-> quantitative, descriptors |-> descriptors]

\* a value-initialized TraitExpression, what traits[id] inserts for a new id
NoExpression == TraitExpression(0, << >>)

\* phenotype.traits[traitId], as read
TraitAt(traits, traitId) ==
    IF traitId \in DOMAIN traits THEN traits[traitId] ELSE NoExpression

\* add with a fault: the magnitude is added to the sum in both modes
addMagnitudeAlways(expr, value, descriptor) ==
    IF descriptor # ""
    THEN [expr EXCEPT !.descriptors = Append(@, descriptor), !.quantitative = @ + value]
    ELSE [expr EXCEPT !.quantitative = @ + value]

\* TraitExpression::add
add(expr, value, descriptor) ==
    IF descriptor # ""
    THEN [expr EXCEPT !.descriptors = Append(@, descriptor)]
    ELSE [expr EXCEPT !.quantitative = @ + value]

\* TraitExpression::summary
summary(expr) ==
    IF expr.descriptors = << >> THEN FormatDouble(expr.quantitative)
    ELSE Join(expr.descriptors, ", ")

containsAllele(genotype, alleleId) == Contains(genotype, alleleId)

isHomozygous(genotype, alleleId) ==
    Len(genotype) = 2 /\ genotype[1] = alleleId /\ genotype[2] = alleleId

\* isHeterozygous with a fault: or in place of exclusive or
isHeterozygousEitherPosition(genotype, alleleId) ==
    Len(genotype) = 2 /\ ((genotype[1] = alleleId) \/ (genotype[2] = alleleId))

isHeterozygous(genotype, alleleId) ==
    Len(genotype) = 2 /\ ((genotype[1] = alleleId) # (genotype[2] = alleleId))

RECURSIVE SortStrings(_)
\* std::sort of a vector of strings
SortStrings(ss) ==
    IF ss = << >> THEN << >>
    ELSE LET rest == SortStrings(Tail(ss))
             before == SelectSeq(rest, LAMBDA t : StrLess(t, Head(ss)))
             after == SelectSeq(rest, LAMBDA t : ~StrLess(t, Head(ss)))
         IN  before \o <<Head(ss)>> \o after

\* the descriptors joined with ", ", single letters or not
combineDescriptorsJoined(descriptors) ==
    Join(Unique(SelectSeq(descriptors, LAMBDA d : d # "")), ", ")

combineDescriptors(descriptors) ==
    LET uniqueDescriptors == Unique(SelectSeq(descriptors, LAMBDA d : d # ""))
        allSingleAlpha == \A i \in 1..Len(uniqueDescriptors) :
                              /\ Len(uniqueDescriptors[i]) = 1
                              /\ IsAlpha(uniqueDescriptors[i])
    IN  IF uniqueDescriptors = << >> THEN ""
        ELSE IF Len(uniqueDescriptors) = 1 THEN uniqueDescriptors[1]
        ELSE IF allSingleAlpha THEN Join(SortStrings(uniqueDescriptors), "")
        ELSE Join(uniqueDescriptors, ", ")

(***************************************************************************)
(* Engine::expressPhenotype (Engine.cpp 266-415): dominance resolution.    *)
(* A phenotype is its traits map: trait id -> TraitExpression.             *)
(***************************************************************************)
RECURSIVE applyEffects(_, _)
\* the lambda applyEffects, on the effects left to apply
applyEffects(traits, effects) ==
    IF effects = << >> THEN traits
    ELSE LET effect == Head(effects)
         IN  applyEffects(MapPut(traits, effect.traitId,
                              add(TraitAt(traits, effect.traitId), effect.magnitude,
                                  effect.description)),
                          Tail(effects))

EffectTraits(effects) == { effects[i].traitId : i \in 1..Len(effects) }

RECURSIVE Sum(_)
Sum(values) == IF values = << >> THEN 0 ELSE Head(values) + Sum(Tail(values))

\* the Complete branch with ties going to the second allele
ExpressCompleteSecondOnTie(traits, resolved1, resolved2) ==
    applyEffects(traits,
        IF resolved1.dominanceRank > resolved2.dominanceRank THEN resolved1.effects
        ELSE resolved2.effects)

\* the Complete branch
ExpressComplete(traits, resolved1, resolved2) ==
    LET expressed == IF resolved1.id = resolved2.id THEN resolved1
                     ELSE IF resolved1.dominanceRank > resolved2.dominanceRank THEN resolved1
                     ELSE IF resolved2.dominanceRank > resolved1.dominanceRank THEN resolved2
                     ELSE resolved1
    IN  applyEffects(traits, expressed.effects)

\* the Codominant branch of equal ranks, for one entry of effectsByTrait
CodominantTrait(expr, effects) ==
    LET magnitudeSum == Sum([i \in 1..Len(effects) |-> effects[i].magnitude])
        magnitudeCount == Len(effects)
        descriptors == SelectSeq([i \in 1..Len(effects) |-> effects[i].description],
                                 LAMBDA d : d # "")
        descriptor == combineDescriptors(descriptors)
    IN  TraitExpression(
            IF descriptors = << >> /\ magnitudeCount > 0
            THEN expr.quantitative + (magnitudeSum \div magnitudeCount)
            ELSE 0,
            IF descriptor # "" THEN <<descriptor>> ELSE << >>)

\* the Codominant branch
ExpressCodominant(traits, resolved1, resolved2) ==
    IF resolved1.id = resolved2.id THEN applyEffects(traits, resolved1.effects)
    ELSE IF resolved1.dominanceRank # resolved2.dominanceRank
         THEN applyEffects(traits,
                  IF resolved1.dominanceRank > resolved2.dominanceRank
                  THEN resolved1.effects ELSE resolved2.effects)
    ELSE LET both == resolved1.effects \o resolved2.effects
             effectsByTrait(t) == SelectSeq(both, LAMBDA e : e.traitId = t)
         IN  [t \in (DOMAIN traits) \cup EffectTraits(both) |->
                 IF t \in EffectTraits(both)
                 THEN CodominantTrait(TraitAt(traits, t), effectsByTrait(t))
                 ELSE traits[t]]

\* map.emplace(effect.traitId, &effect) over the effects: the first effect of
\* each trait
FirstEffect(effects, traitId) == SelectSeq(effects, LAMBDA e : e.traitId = traitId)[1]

\* the blend with the weights of the two alleles exchanged
BlendBothWeightsExchanged(gene, expr, map1, map2, traitId) ==
    LET firstEffect == FirstEffect(map1, traitId)
        hasSecond == traitId \in EffectTraits(map2)
        secondEffect == FirstEffect(map2, traitId)
        secondMagnitude == IF hasSecond THEN secondEffect.magnitude ELSE 0
        blended == Mul(One - gene.incompleteBlendWeight, firstEffect.magnitude)
                   + Mul(gene.incompleteBlendWeight, secondMagnitude)
        firstDesc == firstEffect.description
        secondDesc == IF hasSecond THEN secondEffect.description ELSE ""
        desc == IF firstEffect.intermediateDescriptor # ""
                THEN firstEffect.intermediateDescriptor
                ELSE IF hasSecond /\ secondEffect.intermediateDescriptor # ""
                     THEN secondEffect.intermediateDescriptor
                ELSE IF firstDesc # "" \/ secondDesc # ""
                     THEN "blend(" \o firstDesc
                          \o (IF secondDesc # "" THEN ", " \o secondDesc ELSE "") \o ")"
                ELSE ""
    IN  add(expr, blended, desc)

\* the Incomplete branch, heterozygous, for a trait of map1
BlendBoth(gene, expr, map1, map2, traitId) ==
    LET firstEffect == FirstEffect(map1, traitId)
        hasSecond == traitId \in EffectTraits(map2)
        secondEffect == FirstEffect(map2, traitId)
        secondMagnitude == IF hasSecond THEN secondEffect.magnitude ELSE 0
        blended == Mul(gene.incompleteBlendWeight, firstEffect.magnitude)
                   + Mul(One - gene.incompleteBlendWeight, secondMagnitude)
        firstDesc == firstEffect.description
        secondDesc == IF hasSecond THEN secondEffect.description ELSE ""
        desc == IF firstEffect.intermediateDescriptor # ""
                THEN firstEffect.intermediateDescriptor
                ELSE IF hasSecond /\ secondEffect.intermediateDescriptor # ""
                     THEN secondEffect.intermediateDescriptor
                ELSE IF firstDesc # "" \/ secondDesc # ""
                     THEN "blend(" \o firstDesc
                          \o (IF secondDesc # "" THEN ", " \o secondDesc ELSE "") \o ")"
                ELSE ""
    IN  add(expr, blended, desc)

\* the Incomplete branch, heterozygous, for a trait of map2 that map1 lacks
BlendSecond(gene, expr, map2, traitId) ==
    LET effect == FirstEffect(map2, traitId)
        blended == Mul(One - gene.incompleteBlendWeight, effect.magnitude)
        desc == IF effect.intermediateDescriptor # "" THEN effect.intermediateDescriptor
                ELSE IF effect.description # "" THEN "blend(" \o effect.description \o ")"
                ELSE ""
    IN  add(expr, blended, desc)

\* the Incomplete branch
ExpressIncomplete(gene, traits, resolved1, resolved2) ==
    IF resolved1.id = resolved2.id THEN applyEffects(traits, resolved1.effects)
    ELSE LET map1 == resolved1.effects
             map2 == resolved2.effects
         IN  [t \in (DOMAIN traits) \cup EffectTraits(map1) \cup EffectTraits(map2) |->
                 IF t \in EffectTraits(map1)
                 THEN BlendBoth(gene, TraitAt(traits, t), map1, map2, t)
                 ELSE IF t \in EffectTraits(map2)
                      THEN BlendSecond(gene, TraitAt(traits, t), map2, t)
                 ELSE traits[t]]

\* the body of the loop over config_.genes
ExpressGene(eng, individual, traits, gene) ==
    IF gene.id \notin DOMAIN individual.genotype THEN traits
    ELSE LET genotype == individual.genotype[gene.id]
             allele1 == genotype[1]
             allele2 == genotype[Len(genotype)]
             resolved1 == AlleleById(eng, gene, allele1)
             resolved2 == AlleleById(eng, gene, allele2)
         IN  IF genotype = << >> THEN traits
             ELSE IF gene.dominance = "Complete"
                  THEN ExpressComplete(traits, resolved1, resolved2)
             ELSE IF gene.dominance = "Codominant"
                  THEN ExpressCodominant(traits, resolved1, resolved2)
             ELSE ExpressIncomplete(gene, traits, resolved1, resolved2)

RECURSIVE ResolveDominance(_, _, _, _)
\* the loop over config_.genes
ResolveDominance(eng, individual, traits, genes) ==
    IF genes = << >> THEN traits
    ELSE ResolveDominance(eng, individual,
                          ExpressGene(eng, individual, traits, Head(genes)), Tail(genes))

(***************************************************************************)
(* Engine::applyEpistasis (Engine.cpp 658-702).                            *)
(***************************************************************************)
conditionMet(rule, genotype) ==
    CASE rule.requirement = "Present" -> containsAllele(genotype, rule.triggeringAllele)
      [] rule.requirement = "Homozygous" -> isHomozygous(genotype, rule.triggeringAllele)
      [] rule.requirement = "Heterozygous" -> isHeterozygous(genotype, rule.triggeringAllele)
      [] rule.requirement = "Hemizygous" ->
            Len(genotype) = 1 /\ genotype[1] = rule.triggeringAllele

\* whether the rule gets past both continue statements
Fires(rule, individual) ==
    /\ rule.regulatorGene \in DOMAIN individual.genotype
    /\ conditionMet(rule, individual.genotype[rule.regulatorGene])

\* what a firing rule leaves in its target trait
ApplyRule(rule, expr) ==
    IF rule.action = "MaskTrait"
    THEN TraitExpression(rule.overrideValue,
             IF rule.overrideDescription # "" THEN <<rule.overrideDescription>> ELSE << >>)
    ELSE TraitExpression(Mul(expr.quantitative, rule.modifier),
             IF rule.overrideDescription # ""
             THEN Append(expr.descriptors, rule.overrideDescription)
             ELSE expr.descriptors)

RECURSIVE EpistasisLoop(_, _, _)
EpistasisLoop(rules, individual, traits) ==
    IF rules = << >> THEN traits
    ELSE LET rule == Head(rules)
         IN  EpistasisLoop(Tail(rules), individual,
                 IF Fires(rule, individual)
                 THEN MapPut(traits, rule.targetTrait,
                             ApplyRule(rule, TraitAt(traits, rule.targetTrait)))
                 ELSE traits)

applyEpistasis(eng, individual, traits) ==
    EpistasisLoop(eng.config.epistasis, individual, traits)

(***************************************************************************)
(* Engine::applyPhenotypeOverrides (Engine.cpp 704-807).                   *)
(***************************************************************************)
\* the lambda findGenotype: <<genotype>> or << >> for nullptr
findGenotype(eng, individual, geneId) ==
    IF findGene(eng, geneId) # << >> /\ geneId \in DOMAIN individual.genotype
    THEN <<individual.genotype[geneId]>>
    ELSE << >>

hasDominantWhite(whiteMaskGenotype) ==
    /\ whiteMaskGenotype # << >>
    /\ \E i \in 1..Len(whiteMaskGenotype[1]) :
          LET cleaned == stripNonAlnum(whiteMaskGenotype[1][i])
          IN  cleaned = "W" \/ toUpperCopy(cleaned) \in {"WHITE", "WMASK"}

isDilute(diluteGenotype) ==
    /\ diluteGenotype # << >>
    /\ Len(diluteGenotype[1]) = 2
    /\ \A i \in 1..2 : stripNonAlnum(diluteGenotype[1][i]) = "d"

coatDescriptor(individual, whiteMaskGenotype, blackOrangeGenotype, diluteGenotype) ==
    LET uppers == IF blackOrangeGenotype = << >> THEN { }
                  ELSE { toUpperCopy(stripNonAlnum(blackOrangeGenotype[1][i])) :
                            i \in 1..Len(blackOrangeGenotype[1]) }
        hasBlackAllele == uppers \cap {"XB", "B"} # { }
        hasOrangeAllele == uppers \cap {"XO", "O"} # { }
        dilute == isDilute(diluteGenotype)
    IN  IF hasDominantWhite(whiteMaskGenotype) THEN "Solid White"
        ELSE IF blackOrangeGenotype = << >> \/ blackOrangeGenotype[1] = << >> THEN ""
        ELSE IF individual.sex = Female
             THEN IF hasBlackAllele /\ hasOrangeAllele
                  THEN (IF dilute THEN "Dilute Tortoiseshell Female"
                        ELSE "Tortoiseshell Female")
                  ELSE IF hasBlackAllele
                       THEN (IF dilute THEN "Blue Female" ELSE "Black Female")
                  ELSE IF hasOrangeAllele
                       THEN (IF dilute THEN "Cream Female" ELSE "Orange Female")
                  ELSE ""
        ELSE IF hasBlackAllele THEN (IF dilute THEN "Blue Male" ELSE "Black Male")
        ELSE IF hasOrangeAllele THEN (IF dilute THEN "Cream Male" ELSE "Orange Male")
        ELSE ""

\* whether the stage gets past its early return
OverridesApply(eng, individual) ==
    \E geneId \in {"white_masking", "black_orange", "dilute"} :
        findGenotype(eng, individual, geneId) # << >>

applyPhenotypeOverrides(eng, individual, traits) ==
    LET whiteMaskGenotype == findGenotype(eng, individual, "white_masking")
        blackOrangeGenotype == findGenotype(eng, individual, "black_orange")
        diluteGenotype == findGenotype(eng, individual, "dilute")
        coat == coatDescriptor(individual, whiteMaskGenotype, blackOrangeGenotype,
                               diluteGenotype)
        coatExpr == TraitExpression(0, IF coat # "" THEN <<coat>> ELSE << >>)
        pigmentExpr ==
            TraitExpression(0,
                IF diluteGenotype # << >> /\ diluteGenotype[1] # << >>
                THEN <<IF isDilute(diluteGenotype) THEN "Dilute" ELSE "Dense">>
                ELSE << >>)
    IN  IF ~OverridesApply(eng, individual) THEN traits
        ELSE MapPut(MapPut(traits, "coat_color", coatExpr), "pigment_intensity",
                    pigmentExpr)

(***************************************************************************)
(* Engine::applyLinkageTraits (Engine.cpp 809-879).                        *)
(***************************************************************************)
\* the piece a trait contributes to the composite descriptor
LinkagePiece(expr) ==
    IF expr.descriptors = << >> THEN summary(expr)
    ELSE IF Len(expr.descriptors) = 1 THEN expr.descriptors[1]
    ELSE Join(expr.descriptors, "/")

\* the body of the loop over linkageMap_, for the group grp
CompositeGroup(eng, grp, traits) ==
    LET processedTraitIds == SelectSeq(eng.linkageTraitIds[grp],
                                       LAMBDA t : t \in DOMAIN traits)
        descriptorPieces == [i \in 1..Len(processedTraitIds) |->
                                LinkagePiece(traits[processedTraitIds[i]])]
        joined == Join(processedTraitIds, "_")
        combinedTraitId ==
            IF joined # "" THEN joined
            ELSE "linkage_group_" \o (IF grp = 0 THEN "0" ELSE DigitString(IntDigits(grp)))
        erased == [t \in (DOMAIN traits) \ Range(processedTraitIds) |-> traits[t]]
    IN  IF Len(eng.linkageMap[grp]) < 2 \/ descriptorPieces = << >> THEN traits
        ELSE MapPut(erased, combinedTraitId,
                    TraitExpression(0, <<Join(descriptorPieces, ", ")>>))

RECURSIVE LinkageLoop(_, _, _)
\* the loop over linkageMap_; the groups are visited in ascending order of their
\* ids (an unordered_map fixes no order: the order only matters to groups that
\* share a trait id)
LinkageLoop(eng, groups, traits) ==
    IF groups = { } THEN traits
    ELSE LET grp == CHOOSE g \in groups : \A h \in groups : g <= h
         IN  LinkageLoop(eng, groups \ {grp}, CompositeGroup(eng, grp, traits))

applyLinkageTraits(eng, traits) == LinkageLoop(eng, DOMAIN eng.linkageMap, traits)

\* expressPhenotype with a fault: the epistasis rules applied before the domain
\* override stage
expressPhenotypeRulesFirst(eng, individual) ==
    LET resolved == ResolveDominance(eng, individual, EmptyMap, eng.config.genes)
        masked == applyEpistasis(eng, individual, resolved)
        overridden == applyPhenotypeOverrides(eng, individual, masked)
    IN  applyLinkageTraits(eng, overridden)

\* Engine::expressPhenotype: the traits of the Phenotype it returns; the Individuals
\* it is run on are those the engine returned, whose alleles requireAllele finds
expressPhenotype(eng, individual) ==
    LET resolved == ResolveDominance(eng, individual, EmptyMap, eng.config.genes)
        overridden == applyPhenotypeOverrides(eng, individual, resolved)
        masked == applyEpistasis(eng, individual, overridden)
    IN  applyLinkageTraits(eng, masked)

(***************************************************************************)
(* Phenotype expression as a function: runs that draw an Individual that   *)
(* createIndividual returns and call expressPhenotype on it.               *)
(***************************************************************************)
\* the three genes applyPhenotypeOverrides looks for
WhiteMasking(linkageGroup) ==
    GeneDefinition("white_masking", "Autosomal", "Complete", linkageGroup, Half, Half, "w",
        <<AlleleDefinition("W", 1, <<AlleleEffect("coat_color", One, "white", "")>>),
          AlleleDefinition("w", 0, <<AlleleEffect("coat_color", 0, "", "")>>)>>)

BlackOrange ==
    GeneDefinition("black_orange", "X", "Codominant", NoGroup, Half, Half, "B",
        <<AlleleDefinition("B", 1, <<AlleleEffect("coat_color", One, "black", "")>>),
          AlleleDefinition("O", 1, <<AlleleEffect("coat_color", One, "orange", "")>>)>>)

Dilute(linkageGroup) ==
    GeneDefinition("dilute", "Autosomal", "Complete", linkageGroup, Half, Half, "D",
        <<AlleleDefinition("D", 1, <<AlleleEffect("pigment_intensity", One, "dense", "")>>),
          AlleleDefinition("d", 0, <<AlleleEffect("pigment_intensity", Half, "dilute", "")>>)>>)

\* a rule that masks the coat colour and a rule that modifies it
WhiteMask ==
    EpistasisRule("white_masking", "W", "Present", "MaskTrait", "coat_color", One,
                  "masked white", 0)

DiluteModifier ==
    EpistasisRule("dilute", "d", "Homozygous", "ModifyTraitValue", "coat_color", Half,
                  "diluted", 0)

\* a gene of three alleles for each dominance pattern: P and R of rank 1, Q of a
\* given rank; effects with and without description, with and without intermediate
\* descriptor, on traits that all or only some of the alleles affect
PatternGene(dominance, rankQ, weight) ==
    GeneDefinition("pattern", "Autosomal", dominance, NoGroup, Half, weight, "P",
        <<AlleleDefinition("P", 1, <<AlleleEffect("tone", One, "p", ""),
                                     AlleleEffect("size", One, "", "")>>),
          AlleleDefinition("Q", rankQ, <<AlleleEffect("tone", Half, "q", ""),
                                         AlleleEffect("size", Half, "", ""),
                                         AlleleEffect("extra", One, "", ""),
                                         AlleleEffect("gloss", Half, "", "")>>),
          AlleleDefinition("R", 1, <<AlleleEffect("tone", 0, "rose", "mid"),
                                     AlleleEffect("gloss", One, "shiny", "")>>)>>)

PatternConfigs ==
    { EngineConfig(<<PatternGene(dominance, rankQ, weight)>>, << >>) :
        dominance \in {"Complete", "Codominant", "Incomplete"},
        rankQ \in {0, 1}, weight \in {Half, One \div 4} }

\* an X-linked regulator gene: two positions in a female, one in a male; a trait
\* with a quantitative value and a trait with a descriptor
Regulator ==
    GeneDefinition("regulator", "X", "Complete", NoGroup, Half, Half, "E",
        <<AlleleDefinition("E", 1, <<AlleleEffect("shade", One, "", ""),
                                     AlleleEffect("tint", One, "deep", "")>>),
          AlleleDefinition("e", 0, <<AlleleEffect("shade", Half, "", ""),
                                     AlleleEffect("tint", One, "faint", "")>>)>>)

\* a rule on allele E of each requirement and action, with and without override
\* descriptor, on a trait the gene gives or on one it does not
DrawnRules ==
    { EpistasisRule("regulator", "E", requirement, action, targetTrait, Half,
                    overrideDescription, One \div 4) :
        requirement \in {"Present", "Homozygous", "Heterozygous", "Hemizygous"},
        action \in {"MaskTrait", "ModifyTraitValue"},
        targetTrait \in {"shade", "tint", "novel"},
        overrideDescription \in {"", "ruled"} }

\* a rule on allele e that halves the shade, and a rule whose regulator is no gene
\* of the Individual
HalveShade ==
    EpistasisRule("regulator", "e", "Present", "ModifyTraitValue", "shade", Half, "", 0)

NoRegulator ==
    EpistasisRule("absent", "E", "Present", "MaskTrait", "shade", Half, "never", One)

\* the drawn rule before and after the rule that halves the shade
RuleConfigs ==
    { EngineConfig(<<Regulator>>, rules) :
        rules \in UNION { { <<rule, HalveShade, NoRegulator>>, <<HalveShade, NoRegulator, rule>> } :
                            rule \in DrawnRules } }

\* an autosomal gene that gives a quantitative trait and, with allele T, a trait of
\* two descriptors
Stature(linkageGroup) ==
    GeneDefinition("stature", "Autosomal", "Complete", linkageGroup, Half, Half, "T",
        <<AlleleDefinition("T", 1, <<AlleleEffect("height", One, "", ""),
                                     AlleleEffect("build", One, "broad", ""),
                                     AlleleEffect("build", One, "heavy", "")>>),
          AlleleDefinition("t", 0, <<AlleleEffect("height", Half, "", "")>>)>>)

\* the gene in one linkage group with a Y-linked gene, which a female does not
\* hold; the gene alone in its group; the two genes in two groups
LinkageConfigs ==
    { EngineConfig(<<Stature(<<1>>), HairyEars(<<1>>)>>, << >>),
      EngineConfig(<<Stature(<<1>>), HairyEars(NoGroup)>>, << >>),
      EngineConfig(<<Stature(<<2>>), HairyEars(<<1>>)>>, << >>) }

\* the coat colour genes unlinked, and two of them in one linkage group; the genes
\* of the dominance patterns; the regulator gene with its rules; the linked genes
PhenotypeConfigs ==
    PatternConfigs \cup RuleConfigs \cup LinkageConfigs \cup
    { EngineConfig(<<WhiteMasking(NoGroup), BlackOrange, Dilute(NoGroup)>>,
                   <<WhiteMask, DiluteModifier>>),
      EngineConfig(<<WhiteMasking(<<1>>), BlackOrange, Dilute(<<1>>)>>,
                   <<WhiteMask, DiluteModifier>>) }

\* the Individuals createIndividual returns
CreatedIndividuals(eng) ==
    { createIndividual(eng, sex, genotype).value[1] :
        <<sex, genotype>> \in { c \in Sex \X SuppliedGenotypes(eng) :
                                  createIndividual(eng, c[1], c[2]).err = "none" } }

InitPheno ==
    /\ engine \in Engines(PhenotypeConfigs)
    /\ individuals = {}
    /\ lastCall = NoCall
    /\ lastErr = "none"
    /\ args \in { [op |-> "inputs", individual |-> i] : i \in CreatedIndividuals(engine) }
    /\ result = NoCall
    /\ pool = NoPool

\* a call of expressPhenotype on the input
ExpressPhenotype ==
    /\ args.op = "inputs"
    /\ args' = [args EXCEPT !.op = "expressPhenotype"]
    /\ result' = expressPhenotype(engine, args.individual)
    /\ UNCHANGED <<engine, individuals, lastCall, lastErr, pool>>

NextPheno == ExpressPhenotype

SpecPheno == InitPheno /\ [][NextPheno]_vars

\* some epistasis rule that targets the coat colour fires
CoatRuleFires(eng, individual) ==
    \E i \in 1..Len(eng.config.epistasis) :
        /\ eng.config.epistasis[i].targetTrait = "coat_color"
        /\ Fires(eng.config.epistasis[i], individual)

\* what the domain override stage writes, whatever it finds
OverrideWrites(eng, individual) == applyPhenotypeOverrides(eng, individual, EmptyMap)

\* what the epistasis rules make of what the domain override stage writes
RulesOnOverride(eng, individual) ==
    applyEpistasis(eng, individual, OverrideWrites(eng, individual))

\* the phenotype holds the coat colour and pigment intensity of staged, as the
\* traits themselves or as the pieces of their linkage composite
LeftInPhenotype(traits, staged) ==
    IF "coat_color" \in DOMAIN traits
    THEN traits["coat_color"] = staged["coat_color"]
    ELSE /\ "coat_color_pigment_intensity" \in DOMAIN traits
         /\ traits["coat_color_pigment_intensity"] =
                TraitExpression(0, <<LinkagePiece(staged["coat_color"]) \o ", "
                                     \o LinkagePiece(staged["pigment_intensity"])>>)

RECURSIVE SetToSeq(_)
\* the elements of a finite set, one after the other
SetToSeq(set) ==
    IF set = { } THEN << >>
    ELSE LET x == CHOOSE y \in set : TRUE
         IN  <<x>> \o SetToSeq(set \ {x})

\* std::accumulate over the probabilities of a map
Total(probabilities) ==
    LET keys == SetToSeq(DOMAIN probabilities)
    IN  Sum([i \in 1..Len(keys) |-> probabilities[keys[i]]])

\* GenotypeDistribution::normalize and PhenotypeDistribution::normalize
normalize(probabilities) ==
    IF Total(probabilities) > 0
    THEN [k \in DOMAIN probabilities |-> Div(probabilities[k], Total(probabilities))]
    ELSE probabilities

\* GenotypeDistribution::toPercentages and PhenotypeDistribution::toPercentages
toPercentages(probabilities) == [k \in DOMAIN probabilities |-> probabilities[k] * 100]

\* map[key] += value
MapAdd(map, key, value) ==
    MapPut(map, key, (IF key \in DOMAIN map THEN map[key] ELSE 0) + value)

\* struct TraitResult
TraitResult(genotypic_ratios, phenotypic_ratios) ==
    [genotypic_ratios |-> genotypic_ratios, phenotypic_ratios |-> phenotypic_ratios]

\* a parent that passes on its first allele only
getGameteProbabilitiesFirstAllele(gene, parentGenotype, parentSex) ==
    IF parentGenotype = << >> \/ (gene.chromosome = "Y" /\ parentSex # Male) THEN EmptyMap
    ELSE MapPut(EmptyMap, parentGenotype[1], One)

\* gametes[allele] = 0.5 in place of gametes[allele] += 0.5
getGameteProbabilitiesAssigned(gene, parentGenotype, parentSex) ==
    IF parentGenotype = << >> \/ (gene.chromosome = "Y" /\ parentSex # Male) THEN EmptyMap
    ELSE IF Len(parentGenotype) = 1 \/ (gene.chromosome # "Autosomal" /\ parentSex = Male)
         THEN MapPut(EmptyMap, parentGenotype[1], One)
    ELSE MapPut(MapPut(EmptyMap, parentGenotype[1], Half), parentGenotype[2], Half)

getGameteProbabilities(gene, parentGenotype, parentSex) ==
    LET both == MapAdd(MapAdd(EmptyMap, parentGenotype[1], Half), parentGenotype[2], Half)
        single == MapPut(EmptyMap, parentGenotype[1], One)
    IN  CASE gene.chromosome = "Autosomal" ->
                IF Len(parentGenotype) = 2 THEN both
                ELSE IF Len(parentGenotype) = 1 THEN single
                ELSE EmptyMap
          [] gene.chromosome = "X" ->
                IF parentSex = Female
                THEN IF Len(parentGenotype) >= 2 THEN both
                     ELSE IF Len(parentGenotype) = 1 THEN single
                     ELSE EmptyMap
                ELSE IF parentGenotype # << >> THEN single ELSE EmptyMap
          [] gene.chromosome = "Y" ->
                IF parentSex = Male /\ parentGenotype # << >> THEN single ELSE EmptyMap

\* MendelianCalculator::findAllele: <<allele>> or << >> for nullptr
findAllele(gene, alleleId) == SelectSeq(gene.alleles, LAMBDA a : a.id = alleleId)

normalizeGenotypeString(gene, allele1, allele2) ==
    LET found1 == findAllele(gene, allele1) # << >>
        found2 == findAllele(gene, allele2) # << >>
        rank1 == IF found1 THEN findAllele(gene, allele1)[1].dominanceRank ELSE 0
        rank2 == IF found2 THEN findAllele(gene, allele2)[1].dominanceRank ELSE 0
        alphabetical == IF StrLessEq(allele1, allele2) THEN allele1 \o allele2
                        ELSE allele2 \o allele1
    IN  IF ~found1 /\ ~found2 THEN alphabetical
        ELSE IF rank1 > rank2 THEN allele1 \o allele2
        ELSE IF rank2 > rank1 THEN allele2 \o allele1
        ELSE alphabetical

combineGametes(gene, gametes1, gametes2) ==
    LET pairs == (DOMAIN gametes1) \X (DOMAIN gametes2)
        label(pair) == normalizeGenotypeString(gene, pair[1], pair[2])
        cell(k) == SetToSeq({ pair \in pairs : label(pair) = k })
    IN  [k \in { label(pair) : pair \in pairs } |->
            Sum([i \in 1..Len(cell(k)) |->
                    Mul(gametes1[cell(k)[i][1]], gametes2[cell(k)[i][2]])])]

\* one iteration of the first loop of parseGenotypeString
ParseStep(st, alleleId) ==
    LET pos == StrFind(st.remaining, alleleId)
        remaining == StrErase(st.remaining, pos, Len(alleleId))
    IN  IF st.done \/ pos = 0 THEN st
        ELSE [genotype |-> Append(st.genotype, alleleId), remaining |-> remaining,
              done |-> remaining = ""]

RECURSIVE ParseLoop(_, _)
ParseLoop(st, alleleIds) ==
    IF alleleIds = << >> THEN st
    ELSE ParseLoop(ParseStep(st, Head(alleleIds)), Tail(alleleIds))

parseGenotypeString(gene, genotypeStr) ==
    LET st == ParseLoop([genotype |-> << >>, remaining |-> genotypeStr, done |-> FALSE],
                        AlleleIds(gene))
    IN  IF genotypeStr = "" THEN << >>
        ELSE IF Len(st.genotype) = 1 /\ st.remaining # ""
                /\ findAllele(gene, st.remaining) # << >>
             THEN Append(st.genotype, st.remaining)
        ELSE st.genotype

RECURSIVE DominantAllele(_, _, _, _)
\* the loop that keeps the allele of the highest rank: <<allele>> or << >>
DominantAllele(gene, genotype, maxRank, dominantAllele) ==
    IF genotype = << >> THEN dominantAllele
    ELSE LET allele == findAllele(gene, Head(genotype))
         IN  IF allele # << >> /\ allele[1].dominanceRank > maxRank
             THEN DominantAllele(gene, Tail(genotype), allele[1].dominanceRank, allele)
             ELSE DominantAllele(gene, Tail(genotype), maxRank, dominantAllele)

\* the fallback at the end of getPhenotypeForGenotype
FirstAlleleLabel(gene, genotype) ==
    LET firstAllele == findAllele(gene, genotype[1])
    IN  IF firstAllele # << >> /\ firstAllele[1].effects # << >>
        THEN firstAllele[1].effects[1].description
        ELSE "Unknown"

\* the label of the allele of the highest rank, else the fallback
DominantLabel(gene, genotype) ==
    LET dominantAllele == DominantAllele(gene, genotype, -1, << >>)
    IN  IF dominantAllele # << >> /\ dominantAllele[1].effects # << >>
        THEN dominantAllele[1].effects[1].description
        ELSE FirstAlleleLabel(gene, genotype)

\* the Codominant branch of getPhenotypeForGenotype
\* the Codominant branch returning the first description alone
CodominantLabelFirstOnly(gene, genotype) ==
    LET expressing == SelectSeq(genotype, LAMBDA id :
                          /\ findAllele(gene, id) # << >>
                          /\ findAllele(gene, id)[1].effects # << >>
                          /\ findAllele(gene, id)[1].dominanceRank > 0)
    IN  IF expressing = << >> THEN FirstAlleleLabel(gene, genotype)
        ELSE findAllele(gene, expressing[1])[1].effects[1].description

CodominantLabel(gene, genotype) ==
    LET expressing == SelectSeq(genotype, LAMBDA id :
                          /\ findAllele(gene, id) # << >>
                          /\ findAllele(gene, id)[1].effects # << >>
                          /\ findAllele(gene, id)[1].dominanceRank > 0)
        descriptions == [i \in 1..Len(expressing) |->
                            findAllele(gene, expressing[i])[1].effects[1].description]
        uniqueDescriptions == Unique(descriptions)
    IN  IF uniqueDescriptions = << >> THEN FirstAlleleLabel(gene, genotype)
        ELSE Join(uniqueDescriptions, ", ")

\* the intermediate descriptor the Incomplete branch returns: <<label>> or << >>
IntermediateLabel(gene, genotype) ==
    LET allele1 == findAllele(gene, genotype[1])
        allele2 == findAllele(gene, genotype[2])
        has(allele) == /\ allele # << >>
                       /\ allele[1].effects # << >>
                       /\ allele[1].effects[1].intermediateDescriptor # ""
    IN  IF Len(genotype) # 2 \/ genotype[1] = genotype[2] THEN << >>
        ELSE IF has(allele1) THEN <<allele1[1].effects[1].intermediateDescriptor>>
        ELSE IF has(allele2) THEN <<allele2[1].effects[1].intermediateDescriptor>>
        ELSE << >>

getPhenotypeForGenotype(gene, genotype) ==
    IF genotype = << >> THEN "Unknown"
    ELSE IF gene.dominance = "Complete" THEN DominantLabel(gene, genotype)
    ELSE IF gene.dominance = "Codominant" THEN CodominantLabel(gene, genotype)
    ELSE IF IntermediateLabel(gene, genotype) # << >>
         THEN IntermediateLabel(gene, genotype)[1]
    ELSE DominantLabel(gene, genotype)

genotypesToPhenotypes(gene, genotypes) ==
    LET label(genotypeStr) ==
            getPhenotypeForGenotype(gene, parseGenotypeString(gene, genotypeStr))
        bucket(phenotype) == SetToSeq({ g \in DOMAIN genotypes : label(g) = phenotype })
    IN  [phenotype \in { label(g) : g \in DOMAIN genotypes } |->
            Sum([i \in 1..Len(bucket(phenotype)) |-> genotypes[bucket(phenotype)[i]]])]

calculateSingleGene(gene, parent1Genotype, parent2Genotype, parent1Sex, parent2Sex) ==
    LET gametes1 == getGameteProbabilities(gene, parent1Genotype, parent1Sex)
        gametes2 == getGameteProbabilities(gene, parent2Genotype, parent2Sex)
        genotypes == normalize(combineGametes(gene, gametes1, gametes2))
        phenotypes == normalize(genotypesToPhenotypes(gene, genotypes))
    IN  TraitResult(genotypes, phenotypes)

\* the body of the loop of calculateCross
CrossStep(eng, results, parent1, parent2, geneId, asPercentages) ==
    LET geneDef == findGene(eng, geneId)
        single == calculateSingleGene(geneDef[1], parent1.genotype[geneId],
                                      parent2.genotype[geneId], parent1.sex, parent2.sex)
    IN  IF geneDef = << >> THEN results
        ELSE IF geneId \notin DOMAIN parent1.genotype \/ geneId \notin DOMAIN parent2.genotype
             THEN results
        ELSE MapPut(results, geneId,
                    IF asPercentages
                    THEN TraitResult(toPercentages(single.genotypic_ratios),
                                     toPercentages(single.phenotypic_ratios))
                    ELSE single)

RECURSIVE CrossLoop(_, _, _, _, _, _)
CrossLoop(eng, results, parent1, parent2, geneIds, asPercentages) ==
    IF geneIds = << >> THEN results
    ELSE CrossLoop(eng, CrossStep(eng, results, parent1, parent2, Head(geneIds),
                                  asPercentages),
                   parent1, parent2, Tail(geneIds), asPercentages)

\* the map gene id -> TraitResult
calculateCross(eng, parent1, parent2, geneIds, asPercentages) ==
    CrossLoop(eng, EmptyMap, parent1, parent2, geneIds, asPercentages)

RECURSIVE generateCombinations(_, _, _, _, _)
\* the lambda generateCombinations: the additions to jointProbabilities it makes,
\* as [label, prob] records
generateCombinations(individualResults, geneIds, index, currentPhenotypes, currentProb) ==
    IF index = Len(geneIds)
    THEN IF currentPhenotypes = << >> THEN << >>
         ELSE <<[label |-> Join(currentPhenotypes, " + "), prob |-> currentProb]>>
    ELSE IF geneIds[index + 1] \notin DOMAIN individualResults THEN << >>
    ELSE LET ratios == individualResults[geneIds[index + 1]].phenotypic_ratios
             phenotypes == SetToSeq(DOMAIN ratios)
         IN  Flatten([i \in 1..Len(phenotypes) |->
                 generateCombinations(individualResults, geneIds, index + 1,
                                      Append(currentPhenotypes, phenotypes[i]),
                                      Mul(currentProb, ratios[phenotypes[i]]))])

\* what calculateJointPhenotypes makes of the results of calculateCross
JointOf(individualResults, geneIds, asPercentages) ==
    LET additions == generateCombinations(individualResults, geneIds, 0, << >>, One)
        labelled(l) == SelectSeq(additions, LAMBDA a : a.label = l)
        jointProbabilities ==
            [l \in { additions[i].label : i \in 1..Len(additions) } |->
                Sum([i \in 1..Len(labelled(l)) |-> labelled(l)[i].prob])]
    IN  IF asPercentages THEN toPercentages(jointProbabilities) ELSE jointProbabilities

\* the map joint label -> probability; calculateCross is called once
calculateJointPhenotypes(eng, parent1, parent2, geneIds, asPercentages) ==
    CHOOSE joint \in { JointOf(individualResults, geneIds, asPercentages) :
                        individualResults \in
                            {calculateCross(eng, parent1, parent2, geneIds, FALSE)} } : TRUE

(***************************************************************************)
(* The calculator as a function: runs that draw two parents, a list of     *)
(* gene ids and the percentage flag, and call calculateCross or            *)
(* calculateJointPhenotypes on them.                                       *)
(***************************************************************************)
\* examples/demo.cpp 33-41
FlowerColor ==
    GeneDefinition("flower_color", "Autosomal", "Incomplete", NoGroup, Half, Half, "R",
        <<AlleleDefinition("R", 1, <<AlleleEffect("petal_color", One, "red hue", "")>>),
          AlleleDefinition("W", 1, <<AlleleEffect("petal_color", 0, "white hue", "")>>)>>)

\* examples/demo.cpp 23-31 (the magnitude 0.1 of E as 1/8: with these descriptions
\* no magnitude enters a phenotype)
PigmentGate ==
    GeneDefinition("pigment_gate", "Autosomal", "Complete", NoGroup, Half, Half, "E",
        <<AlleleDefinition("E", 1, <<AlleleEffect("coat_color", One \div 8, "pigment enabled", "")>>),
          AlleleDefinition("e", 0, <<AlleleEffect("coat_color", 0, "pigment disabled", "")>>)>>)

\* examples/demo.cpp 103-111
PigmentMask ==
    EpistasisRule("pigment_gate", "e", "Homozygous", "MaskTrait", "coat_color", One,
                  "albino (pigment blocked)", 0)

\* examples/test_mendelian.cpp 67-75
AboBlood ==
    GeneDefinition("abo_blood", "Autosomal", "Codominant", NoGroup, Half, Half, "O",
        <<AlleleDefinition("A", 1, <<AlleleEffect("blood_type", One, "Blood Type A", "")>>),
          AlleleDefinition("B", 1, <<AlleleEffect("blood_type", One, "Blood Type B", "")>>),
          AlleleDefinition("O", 0, <<AlleleEffect("blood_type", 0, "Blood Type O", "")>>)>>)

\* a gene whose allele ids are one and two characters long: "ab" is dominant over
\* "a" and "ba"
OverlappingIds ==
    GeneDefinition("series", "Autosomal", "Codominant", NoGroup, Half, Half, "a",
        <<AlleleDefinition("ab", 1, <<AlleleEffect("shade", One, "dark", "")>>),
          AlleleDefinition("a", 0, <<AlleleEffect("shade", 0, "pale", "")>>),
          AlleleDefinition("ba", 0, <<AlleleEffect("shade", 0, "light", "")>>)>>)

\* examples/demo.cpp 12-21: allele id b is a prefix of allele id bl
FurColor ==
    GeneDefinition("fur_color", "Autosomal", "Complete", NoGroup, Half, Half, "B",
        <<AlleleDefinition("B", 2, <<AlleleEffect("coat_color", One, "black pigment", "")>>),
          AlleleDefinition("b", 1, <<AlleleEffect("coat_color", (One * 3) \div 5, "brown pigment", "")>>),
          AlleleDefinition("bl", 0, <<AlleleEffect("coat_color", (One * 2) \div 5, "dilute pigment", "")>>)>>)

CalculatorConfigs ==
    { EngineConfig(<<OverlappingIds>>, << >>),
      EngineConfig(<<FurColor>>, << >>),
      EngineConfig(<<EyeColor, Holandric(NoGroup)>>, << >>),
      EngineConfig(<<Vision(NoGroup)>>, << >>),
      EngineConfig(<<FlowerColor>>, << >>),
      EngineConfig(<<PigmentGate>>, <<PigmentMask>>),
      EngineConfig(<<AboBlood>>, << >>) }

\* the lists of gene ids a caller requests: none, an undefined one, one gene, two
\* genes in either order or the same gene twice
RequestedLists(eng) ==
    LET ids == Range(GeneIds(eng.config))
    IN  {<< >>, <<UnknownGene>>} \cup { <<g>> : g \in ids }
            \cup { <<g, h>> : g \in ids, h \in ids }

CalculatorInputs(eng) ==
    { [op |-> "inputs", parent1 |-> p1, parent2 |-> p2, geneIds |-> ids,
       asPercentages |-> pct] :
        p1 \in CreatedIndividuals(eng), p2 \in CreatedIndividuals(eng),
        ids \in RequestedLists(eng), pct \in BOOLEAN }

InitCalc ==
    /\ engine \in Engines(CalculatorConfigs)
    /\ individuals = {}
    /\ lastCall = NoCall
    /\ lastErr = "none"
    /\ args \in CalculatorInputs(engine)
    /\ result = NoCall
    /\ pool = NoPool

\* a call of calculateCross on the inputs
CalculateCross ==
    /\ args.op = "inputs"
    /\ args' = [args EXCEPT !.op = "calculateCross"]
    /\ result' = calculateCross(engine, args.parent1, args.parent2, args.geneIds,
                                args.asPercentages)
    /\ UNCHANGED <<engine, individuals, lastCall, lastErr, pool>>

\* a call of calculateJointPhenotypes on the inputs
CalculateJointPhenotypes ==
    /\ args.op = "inputs"
    /\ args' = [args EXCEPT !.op = "calculateJointPhenotypes"]
    /\ result' = calculateJointPhenotypes(engine, args.parent1, args.parent2,
                                          args.geneIds, args.asPercentages)
    /\ UNCHANGED <<engine, individuals, lastCall, lastErr, pool>>

NextCalc == CalculateCross \/ CalculateJointPhenotypes

SpecCalc == InitCalc /\ [][NextCalc]_vars

\* the total of a distribution: 1, or 100 as percentages
Whole(asPercentages) == IF asPercentages THEN One * 100 ELSE One

\* the requested gene ids the configuration defines
RequestedGenes(eng, geneIds) ==
    { geneIds[i] : i \in { k \in 1..Len(geneIds) : findGene(eng, geneIds[k]) # << >> } }

\* C3: for every requested gene, the genotype distribution and the phenotype
\* distribution calculateCross returns each sum to 1, or to 100 as percentages.
C3_DistributionsSumToWhole ==
    args.op = "calculateCross" =>
        \A geneId \in RequestedGenes(engine, args.geneIds) :
            /\ geneId \in DOMAIN result
            /\ Total(result[geneId].genotypic_ratios) = Whole(args.asPercentages)
            /\ Total(result[geneId].phenotypic_ratios) = Whole(args.asPercentages)

\* the phenotype labels calculateCross gives for the gene id at a position
LabelsAt(cross, geneIds, i) ==
    IF geneIds[i] \in DOMAIN cross THEN DOMAIN cross[geneIds[i]].phenotypic_ratios ELSE { }

\* the combinations of per-gene phenotype labels, one label per requested gene id
LabelCombinations(cross, geneIds) ==
    { f \in [1..Len(geneIds) -> UNION { LabelsAt(cross, geneIds, i) : i \in 1..Len(geneIds) }] :
        \A i \in 1..Len(geneIds) : f[i] \in LabelsAt(cross, geneIds, i) }

RECURSIVE ProductOf(_, _, _)
\* the product of the per-gene probabilities of a combination
ProductOf(cross, geneIds, f) ==
    IF geneIds = << >> THEN One
    ELSE Mul(ProductOf(cross, SubSeq(geneIds, 1, Len(geneIds) - 1),
                       SubSeq(f, 1, Len(f) - 1)),
             cross[geneIds[Len(geneIds)]].phenotypic_ratios[f[Len(f)]])

\* C4: calculateJointPhenotypes returns one entry per combination of per-gene
\* phenotype labels, joined with " + " in the order of the gene ids; each entry's
\* probability is the product of the per-gene probabilities of calculateCross; the
\* entries sum to 1, or to 100 as percentages.
C4_JointIsProduct ==
    args.op = "calculateJointPhenotypes" =>
        LET cross == calculateCross(engine, args.parent1, args.parent2, args.geneIds, FALSE)
            combinations == LabelCombinations(cross, args.geneIds)
            scale == IF args.asPercentages THEN 100 ELSE 1
        IN  /\ DOMAIN result = { Join(f, " + ") : f \in combinations }
            /\ Cardinality(DOMAIN result) = Cardinality(combinations)
            /\ \A f \in combinations :
                   result[Join(f, " + ")] = ProductOf(cross, args.geneIds, f) * scale
            /\ Total(result) = Whole(args.asPercentages)

\* the label of the stochastic path for a genotype of a gene: the summaries of
\* the gene's traits in the phenotype expressPhenotype gives a single-gene
\* Individual with that genotype
EngineLabel(eng, gene, genotype) ==
    LET individual == Individual(IF Len(genotype) = 1 THEN Male ELSE Female,
                                 MapPut(EmptyMap, gene.id, genotype))
        traits == expressPhenotype(eng, individual)
        expressed == SelectSeq(gatherTraitIds(gene), LAMBDA t : t \in DOMAIN traits)
    IN  Join([i \in 1..Len(expressed) |-> summary(traits[expressed[i]])], ", ")

\* C5: every genotype bucket of calculateCross is accumulated under the label
\* that expressPhenotype gives a single-gene Individual of that genotype.
C5_SameLabelOnBothPaths ==
    args.op = "calculateCross" =>
        \A geneId \in DOMAIN result :
            \A genotypeStr \in DOMAIN result[geneId].genotypic_ratios :
                LET gene == GeneById(engine, geneId)
                    genotype == parseGenotypeString(gene, genotypeStr)
                IN  getPhenotypeForGenotype(gene, genotype) = EngineLabel(engine, gene, genotype)

\* the children mate can return for two parents, over all draws
MateChildren(eng, firstParent, secondParent) ==
    { mate(eng, firstParent, secondParent, d[1], d[2]).value[1] :
        d \in { e \in MaternalDraws(eng, firstParent, secondParent)
                       \X PaternalDraws(eng, firstParent, secondParent) :
                  mate(eng, firstParent, secondParent, e[1], e[2]).err = "none" } }

\* a child genotype as the calculator writes genotypes
CanonicalGenotype(gene, genotype) ==
    IF Len(genotype) = 2 THEN normalizeGenotypeString(gene, genotype[1], genotype[2])
    ELSE genotype[1]

\* the genotypes of a gene that the children of two parents can have
ChildGenotypes(eng, gene, firstParent, secondParent) ==
    { CanonicalGenotype(gene, child.genotype[gene.id]) :
        child \in { c \in MateChildren(eng, firstParent, secondParent) :
                      /\ gene.id \in DOMAIN c.genotype
                      /\ c.genotype[gene.id] # << >> } }

\* the alleles of a gene that generateGamete can put in a gamete of a parent
Transmissible(eng, gene, parent) ==
    { generateGamete(eng, parent, parent.sex, rnd).value.alleles[gene.id] :
        rnd \in { r \in RndSpace(eng, parent, parent.sex) :
                    /\ generateGamete(eng, parent, parent.sex, r).err = "none"
                    /\ gene.id \in DOMAIN generateGamete(eng, parent, parent.sex, r).value.alleles } }

\* C6: for a male and a female parent and every requested gene, the genotypes of
\* non-zero probability in calculateCross's genotype distribution are exactly the
\* genotypes the children of mate can have, and getGameteProbabilities gives an
\* allele non-zero probability only if generateGamete can transmit it.
C6_ExactMatchesStochastic ==
    (args.op = "calculateCross" /\ <<args.parent1.sex, args.parent2.sex>> \in MatedPair) =>
        \A geneId \in RequestedGenes(engine, args.geneIds) :
            LET gene == GeneById(engine, geneId)
                ratios == result[geneId].genotypic_ratios
            IN  /\ { g \in DOMAIN ratios : ratios[g] > 0 }
                       = ChildGenotypes(engine, gene, args.parent1, args.parent2)
                /\ \A parent \in {args.parent1, args.parent2} :
                       LET gametes == getGameteProbabilities(gene, parent.genotype[geneId],
                                                             parent.sex)
                       IN  { a \in DOMAIN gametes : gametes[a] > 0 }
                               \subseteq Transmissible(engine, gene, parent)


(***************************************************************************)
(* Claims about single crosses of the calculator.                          *)
(***************************************************************************)
\* both parents of the call store one allele each of a pair
BothHeterozygous(geneId, x, y) ==
    /\ x # y
    /\ \A parent \in {args.parent1, args.parent2} :
           /\ geneId \in DOMAIN parent.genotype
           /\ parent.genotype[geneId] \in {<<x, y>>, <<y, x>>}

\* the first description of an allele of a gene
DescriptionOf(gene, alleleId) == findAllele(gene, alleleId)[1].effects[1].description

RankOf(gene, alleleId) == findAllele(gene, alleleId)[1].dominanceRank

\* a part of the whole: num/den of 1, or of 100 as percentages
Part(num, den) == (Whole(args.asPercentages) * num) \div den

\* C14: for an autosomal Complete gene with a dominant allele B and a recessive
\* allele b, calculateCross on Bb x Bb gives exactly the genotypes BB 1/4, Bb 1/2,
\* bb 1/4 and the phenotypes dominant 3/4, recessive 1/4 (25/50/25 and 75/25 as
\* percentages).
C14_MonohybridRatios ==
    args.op = "calculateCross" =>
        \A geneId \in RequestedGenes(engine, args.geneIds) :
            LET gene == GeneById(engine, geneId)
            IN  (gene.chromosome = "Autosomal" /\ gene.dominance = "Complete") =>
                    \A B \in Range(AlleleIds(gene)), b \in Range(AlleleIds(gene)) :
                        (RankOf(gene, B) > RankOf(gene, b) /\ BothHeterozygous(geneId, B, b)) =>
                            /\ geneId \in DOMAIN result
                            /\ result[geneId].genotypic_ratios =
                                   MapPut(MapPut(MapPut(EmptyMap, B \o B, Part(1, 4)),
                                                 B \o b, Part(1, 2)), b \o b, Part(1, 4))
                            /\ result[geneId].phenotypic_ratios =
                                   MapPut(MapPut(EmptyMap, DescriptionOf(gene, B), Part(3, 4)),
                                          DescriptionOf(gene, b), Part(1, 4))

\* the eye colour cross Bb x Bb has been calculated: Brown 0.75
C14_Witness ==
    /\ args.op = "calculateCross" /\ ~args.asPercentages
    /\ "eye_color" \in DOMAIN result
    /\ BothHeterozygous("eye_color", "B", "b")
    /\ result["eye_color"].phenotypic_ratios["Brown"] = 3 * (One \div 4)

\* the parents of the call store the pairs <<x, y>> and <<x, z>>, in either order of
\* the parents and of the alleles
CrossOf(geneId, x, y, z) ==
    /\ \A parent \in {args.parent1, args.parent2} : geneId \in DOMAIN parent.genotype
    /\ \E p \in {<<args.parent1, args.parent2>>, <<args.parent2, args.parent1>>} :
           /\ p[1].genotype[geneId] \in {<<x, y>>, <<y, x>>}
           /\ p[2].genotype[geneId] \in {<<x, z>>, <<z, x>>}

\* C15: for an autosomal Codominant gene with alleles A and B of equal positive
\* rank and a recessive allele O, calculateCross on AB x AO gives exactly the
\* genotypes AA, AO, AB, BO of 1/4 each and the phenotypes A 1/2, AB 1/4, B 1/4,
\* the AB phenotype being the merged expression of both alleles.
C15_CodominantRatios ==
    args.op = "calculateCross" =>
        \A geneId \in RequestedGenes(engine, args.geneIds) :
            LET gene == GeneById(engine, geneId)
                ids == Range(AlleleIds(gene))
            IN  (gene.chromosome = "Autosomal" /\ gene.dominance = "Codominant") =>
                    \A A \in ids, B \in ids, O \in ids :
                        ( /\ RankOf(gene, A) = RankOf(gene, B) /\ RankOf(gene, A) > 0
                          /\ RankOf(gene, O) = 0 /\ StrLess(A, B)
                          /\ CrossOf(geneId, A, B, O) ) =>
                            /\ geneId \in DOMAIN result
                            /\ result[geneId].genotypic_ratios =
                                   [g \in {A \o A, A \o O, A \o B, B \o O} |-> Part(1, 4)]
                            /\ result[geneId].phenotypic_ratios =
                                   MapPut(MapPut(MapPut(EmptyMap,
                                       DescriptionOf(gene, A), Part(1, 2)),
                                       DescriptionOf(gene, B), Part(1, 4)),
                                       EngineLabel(engine, gene, <<A, B>>), Part(1, 4))

\* the ABO cross AB x AO has been calculated: the merged phenotype has 0.25
C15_Witness ==
    /\ args.op = "calculateCross" /\ ~args.asPercentages
    /\ "abo_blood" \in DOMAIN result
    /\ CrossOf("abo_blood", "A", "B", "O")
    /\ "Blood Type A, Blood Type B" \in DOMAIN result["abo_blood"].phenotypic_ratios
    /\ result["abo_blood"].phenotypic_ratios["Blood Type A, Blood Type B"] = One \div 4

\* C16: for the normalized genotype of an autosomal gene getGameteProbabilities
\* returns a distribution that sums to 1: 0.5 for each allele of a heterozygous
\* genotype, 1.0 for the allele of a homozygous or a single-allele genotype.
C16_GameteProbabilities ==
    args.op = "calculateCross" =>
        \A parent \in {args.parent1, args.parent2} :
            \A i \in 1..Len(engine.config.genes) :
                LET gene == engine.config.genes[i]
                    genotype == parent.genotype[gene.id]
                    gametes == getGameteProbabilities(gene, genotype, parent.sex)
                    single == getGameteProbabilities(gene, <<genotype[1]>>, parent.sex)
                IN  gene.chromosome = "Autosomal" =>
                        /\ Total(gametes) = One
                        /\ genotype[1] # genotype[2] =>
                               gametes = MapPut(MapPut(EmptyMap, genotype[1], Half),
                                                genotype[2], Half)
                        /\ genotype[1] = genotype[2] =>
                               gametes = MapPut(EmptyMap, genotype[1], One)
                        /\ single = MapPut(EmptyMap, genotype[1], One)

\* a cross has been calculated with a heterozygous and a homozygous parent
C16_Witness ==
    /\ args.op = "calculateCross"
    /\ "eye_color" \in DOMAIN result
    /\ args.parent1.genotype["eye_color"] = <<"B", "b">>
    /\ args.parent2.genotype["eye_color"] = <<"b", "b">>
    /\ getGameteProbabilities(GeneById(engine, "eye_color"), <<"B", "b">>, Female)["b"] = Half

\* the label the canonical order gives a pair: descending dominance rank, ties in
\* alphabetical order
CanonicalLabel(gene, x, y) ==
    IF RankOf(gene, x) > RankOf(gene, y) THEN x \o y
    ELSE IF RankOf(gene, y) > RankOf(gene, x) THEN y \o x
    ELSE IF StrLessEq(x, y) THEN x \o y
    ELSE y \o x

\* the probability the Cartesian product gives an unordered pair of alleles
PairProbability(gametes1, gametes2, pair) ==
    LET cells == SetToSeq({ c \in (DOMAIN gametes1) \X (DOMAIN gametes2) : {c[1], c[2]} = pair })
    IN  Sum([i \in 1..Len(cells) |-> Mul(gametes1[cells[i][1]], gametes2[cells[i][2]])])

\* C17: combineGametes gives every canonical label the sum of pA(x)*pB(y) over the
\* Cartesian product; the label orders a pair by descending rank with alphabetical
\* tie-break, (x, y) and (y, x) share a bucket, and a bucket holds one unordered
\* allele pair only.
C17_BucketsAreUnorderedPairs ==
    args.op = "calculateCross" =>
        \A geneId \in RequestedGenes(engine, args.geneIds) :
            LET gene == GeneById(engine, geneId)
                ids == Range(AlleleIds(gene))
                gametes1 == getGameteProbabilities(gene, args.parent1.genotype[geneId],
                                                   args.parent1.sex)
                gametes2 == getGameteProbabilities(gene, args.parent2.genotype[geneId],
                                                   args.parent2.sex)
                combined == combineGametes(gene, gametes1, gametes2)
            IN  (geneId \in DOMAIN args.parent1.genotype
                    /\ geneId \in DOMAIN args.parent2.genotype) =>
                    /\ \A x \in ids, y \in ids :
                           /\ normalizeGenotypeString(gene, x, y) = CanonicalLabel(gene, x, y)
                           /\ normalizeGenotypeString(gene, x, y)
                                  = normalizeGenotypeString(gene, y, x)
                    /\ DOMAIN combined = { CanonicalLabel(gene, c[1], c[2]) :
                                             c \in (DOMAIN gametes1) \X (DOMAIN gametes2) }
                    /\ \A c \in (DOMAIN gametes1) \X (DOMAIN gametes2) :
                           combined[CanonicalLabel(gene, c[1], c[2])]
                               = PairProbability(gametes1, gametes2, {c[1], c[2]})


(***************************************************************************)
(* Claims about dominance resolution: expressPhenotype on the Individuals  *)
(* of an Engine of one gene, without epistasis rule, override or linkage.  *)
(***************************************************************************)
\* the phenotype of the call is what dominance resolution of one gene gave
Resolved ==
    /\ args.op = "expressPhenotype"
    /\ Len(engine.config.genes) = 1
    /\ engine.config.epistasis = << >>
    /\ ~OverridesApply(engine, args.individual)

\* the gene of the engine, and the two alleles of the Individual in stored order
TheGene == engine.config.genes[1]

FirstAllele == AlleleById(engine, TheGene, args.individual.genotype[TheGene.id][1])

SecondAllele ==
    AlleleById(engine, TheGene,
               args.individual.genotype[TheGene.id][Len(args.individual.genotype[TheGene.id])])

EffectsOn(effects, traitId) == SelectSeq(effects, LAMBDA e : e.traitId = traitId)

\* a contribution (magnitude, descriptor) added to a new TraitExpression: the
\* descriptor alone if it is not empty, else the magnitude
Contribution(magnitude, descriptor) ==
    IF descriptor # "" THEN TraitExpression(0, <<descriptor>>)
    ELSE TraitExpression(magnitude, << >>)

\* the phenotype that holds the effects of one allele and nothing else
EffectsAlone(allele) ==
    [t \in EffectTraits(allele.effects) |->
        LET on == EffectsOn(allele.effects, t)
            described == SelectSeq(on, LAMBDA e : e.description # "")
            plain == SelectSeq(on, LAMBDA e : e.description = "")
        IN  TraitExpression(Sum([i \in 1..Len(plain) |-> plain[i].magnitude]),
                            [i \in 1..Len(described) |-> described[i].description])]

\* the allele of strictly higher rank, the first stored on a tie
HigherOrFirst ==
    IF SecondAllele.dominanceRank > FirstAllele.dominanceRank THEN SecondAllele
    ELSE FirstAllele

\* C18: a Complete gene contributes the effects of exactly one allele: with equal
\* ids that allele's, with different ids those of the allele of strictly higher
\* rank, and on equal ranks those of the allele stored first.
C18_CompleteExpressesOneAllele ==
    (Resolved /\ TheGene.dominance = "Complete") =>
        result = EffectsAlone(IF FirstAllele.id = SecondAllele.id THEN FirstAllele
                              ELSE HigherOrFirst)

\* a genotype of two alleles of equal rank was expressed: the first stored won
C18_Witness ==
    /\ Resolved /\ TheGene.dominance = "Complete"
    /\ args.individual.genotype["pattern"] = <<"Q", "P">>
    /\ FirstAllele.dominanceRank = SecondAllele.dominanceRank
    /\ result["tone"].descriptors = <<"q">>
    /\ "extra" \in DOMAIN result

\* the descriptors merged: single letters sorted and concatenated, others joined
MergedDescriptor(descriptors) ==
    IF \A i \in 1..Len(descriptors) : Len(descriptors[i]) = 1 /\ IsAlpha(descriptors[i])
    THEN Join(SortStrings(descriptors), "")
    ELSE Join(descriptors, ", ")

\* on a trait, the average magnitude and the merged descriptor of the effects of
\* both alleles
AveragedAndMerged(traitId) ==
    LET on == EffectsOn(FirstAllele.effects \o SecondAllele.effects, traitId)
        described == SelectSeq(on, LAMBDA e : e.description # "")
    IN  Contribution(Sum([i \in 1..Len(on) |-> on[i].magnitude]) \div Len(on),
                     MergedDescriptor([i \in 1..Len(described) |-> described[i].description]))

EffectOf(allele, traitId) ==
    IF EffectsOn(allele.effects, traitId) = << >> THEN << >>
    ELSE <<EffectsOn(allele.effects, traitId)[1]>>

\* the blended magnitude of a trait, a missing effect counting as 0
BlendedMagnitude(traitId) ==
    LET first == EffectOf(FirstAllele, traitId)
        second == EffectOf(SecondAllele, traitId)
    IN  Mul(TheGene.incompleteBlendWeight, IF first # << >> THEN first[1].magnitude ELSE 0)
        + Mul(One - TheGene.incompleteBlendWeight,
              IF second # << >> THEN second[1].magnitude ELSE 0)

\* the intermediate descriptor of the first allele, else of the second: <<text>> or
\* << >> when neither has one
IntermediateOf(traitId) ==
    LET first == EffectOf(FirstAllele, traitId)
        second == EffectOf(SecondAllele, traitId)
    IN  IF first # << >> /\ first[1].intermediateDescriptor # ""
        THEN <<first[1].intermediateDescriptor>>
        ELSE IF second # << >> /\ second[1].intermediateDescriptor # ""
             THEN <<second[1].intermediateDescriptor>>
        ELSE << >>

DescriptionIn(effect) == IF effect # << >> THEN effect[1].description ELSE ""

\* the text "blend(desc1, desc2)", whatever the descriptions are
BlendText(traitId) ==
    "blend(" \o DescriptionIn(EffectOf(FirstAllele, traitId)) \o ", "
             \o DescriptionIn(EffectOf(SecondAllele, traitId)) \o ")"

\* the text the code synthesizes: none without a description, the one description
\* alone when the second is missing or empty or when the first allele has no
\* effect on the trait
BlendTextOfDescriptions(traitId) ==
    LET first == EffectOf(FirstAllele, traitId)
        desc1 == DescriptionIn(first)
        desc2 == DescriptionIn(EffectOf(SecondAllele, traitId))
    IN  IF desc1 = "" /\ desc2 = "" THEN ""
        ELSE IF first = << >> THEN "blend(" \o desc2 \o ")"
        ELSE IF desc2 = "" THEN "blend(" \o desc1 \o ")"
        ELSE "blend(" \o desc1 \o ", " \o desc2 \o ")"

BothTraits == EffectTraits(FirstAllele.effects \o SecondAllele.effects)

\* C20 as stated: an Incomplete gene expresses the allele's effects on equal ids;
\* otherwise each trait gets the magnitude weight*first + (1-weight)*second, a
\* missing effect counting as 0, and as descriptor the first allele's intermediate
\* descriptor, else the second allele's, else the text "blend(desc1, desc2)".
C20_BlendAlwaysDescribed ==
    (Resolved /\ TheGene.dominance = "Incomplete") =>
        IF FirstAllele.id = SecondAllele.id THEN result = EffectsAlone(FirstAllele)
        ELSE result = [t \in BothTraits |->
                          Contribution(BlendedMagnitude(t),
                                       IF IntermediateOf(t) # << >> THEN IntermediateOf(t)[1]
                                       ELSE BlendText(t))]

\* C20, amended: as stated, but the text is synthesized only if one of the two
\* descriptions is not empty, as "blend(desc1, desc2)", as "blend(desc1)" when the
\* second is missing or empty, and as "blend(desc2)" when the first allele has no
\* effect on the trait; with no descriptor at all the blended magnitude is added.
C20_BlendOfDescriptions ==
    (Resolved /\ TheGene.dominance = "Incomplete") =>
        IF FirstAllele.id = SecondAllele.id THEN result = EffectsAlone(FirstAllele)
        ELSE result = [t \in BothTraits |->
                          Contribution(BlendedMagnitude(t),
                                       IF IntermediateOf(t) # << >> THEN IntermediateOf(t)[1]
                                       ELSE BlendTextOfDescriptions(t))]

\* a heterozygote of an Incomplete gene of weight 1/4 was expressed: a synthesized
\* text, a blended magnitude, and an intermediate descriptor of the second allele
C20_Witness ==
    /\ Resolved /\ TheGene.dominance = "Incomplete"
    /\ TheGene.incompleteBlendWeight = One \div 4
    /\ \/ /\ args.individual.genotype["pattern"] = <<"P", "Q">>
          /\ result["tone"].descriptors = <<"blend(p, q)">>
          /\ result["size"].quantitative = (One \div 4) + 3 * (Half \div 4)
       \/ /\ args.individual.genotype["pattern"] = <<"P", "R">>
          /\ result["tone"].descriptors = <<"mid">>


(***************************************************************************)
(* Claims about the epistasis stage: expressPhenotype on the Individuals   *)
(* of the Engine of the regulator gene, without override or linkage.       *)
(***************************************************************************)
\* the phenotype of the call is what the rules left of the resolved dominance
Ruled ==
    /\ args.op = "expressPhenotype"
    /\ GeneIds(engine.config) = <<"regulator">>
    /\ engine.config.epistasis # << >>

\* how many positions of a genotype hold the allele
Occurrences(genotype, alleleId) ==
    Cardinality({ i \in 1..Len(genotype) : genotype[i] = alleleId })

\* the requirement of a rule, read on the regulator gene's genotype
RequirementHolds(rule, genotype) ==
    LET n == Occurrences(genotype, rule.triggeringAllele)
    IN  CASE rule.requirement = "Present" -> n >= 1
          [] rule.requirement = "Homozygous" -> Len(genotype) = 2 /\ n = 2
          [] rule.requirement = "Heterozygous" -> Len(genotype) = 2 /\ n = 1
          [] rule.requirement = "Hemizygous" -> Len(genotype) = 1 /\ n = 1

RuleFires(rule) ==
    /\ rule.regulatorGene \in DOMAIN args.individual.genotype
    /\ RequirementHolds(rule, args.individual.genotype[rule.regulatorGene])

\* the phenotype after one rule
AfterRule(rule, traits) ==
    IF ~RuleFires(rule) THEN traits
    ELSE LET target == TraitAt(traits, rule.targetTrait)
         IN  MapPut(traits, rule.targetTrait,
                 IF rule.action = "MaskTrait"
                 THEN TraitExpression(rule.overrideValue,
                          SelectSeq(<<rule.overrideDescription>>, LAMBDA d : d # ""))
                 ELSE TraitExpression(Mul(target.quantitative, rule.modifier),
                          target.descriptors \o
                              SelectSeq(<<rule.overrideDescription>>, LAMBDA d : d # "")))

\* the rules one by one in configuration order
RECURSIVE AfterRules(_, _)
AfterRules(rules, traits) ==
    IF rules = << >> THEN traits
    ELSE AfterRules(Tail(rules), AfterRule(Head(rules), traits))

\* the effects of the expressed allele of the regulator gene
BeforeRules ==
    EffectsAlone(IF FirstAllele.id = SecondAllele.id THEN FirstAllele ELSE HigherOrFirst)

\* C21: the epistasis rules are applied one by one in configuration order; a rule
\* fires iff its requirement holds on the regulator gene's genotype (Present: at
\* least one position; Homozygous: two positions, both; Heterozygous: two
\* positions, exactly one; Hemizygous: one position, that one); a firing Mask rule
\* sets the target's value to the override value and its descriptors to the
\* override descriptor alone, a firing Modify rule multiplies the value by the
\* modifier and appends the override descriptor if it is not empty, and a rule
\* that does not fire changes nothing.
C21_RulesInOrder ==
    Ruled => result = AfterRules(engine.config.epistasis, BeforeRules)

\* a Heterozygous Mask rule fired on a female and the later rule halved the value
\* it had set
C21_Witness ==
    /\ Ruled
    /\ LET rule == engine.config.epistasis[1]
       IN  /\ rule.requirement = "Heterozygous" /\ rule.action = "MaskTrait"
           /\ rule.targetTrait = "shade" /\ rule.overrideDescription = "ruled"
    /\ args.individual.sex = Female
    /\ Occurrences(args.individual.genotype["regulator"], "E") = 1
    /\ result["shade"] = TraitExpression(Mul(One \div 4, Half), <<"ruled">>)

(***************************************************************************)
(* Claims about linkage compositing: expressPhenotype on the Individuals   *)
(* of the Engines of the stature gene and the Y-linked gene.               *)
(***************************************************************************)
\* the phenotype of the call on an Engine of the linked genes
Linked ==
    /\ args.op = "expressPhenotype"
    /\ GeneIds(engine.config) = <<"stature", "hairy_ears">>

\* the phenotype before the linkage stage
Staged ==
    applyEpistasis(engine, args.individual,
        applyPhenotypeOverrides(engine, args.individual,
            ResolveDominance(engine, args.individual, EmptyMap, engine.config.genes)))

\* the member genes of a linkage group, in configuration order
Members(grp) == SelectSeq(engine.config.genes, LAMBDA g : g.linkageGroup = <<grp>>)

\* the gene produced a trait: the Individual holds an allele of it and the gene
\* has an effect
Produced(gene) ==
    /\ gene.id \in DOMAIN args.individual.genotype
    /\ args.individual.genotype[gene.id] # << >>
    /\ gatherTraitIds(gene) # << >>

\* the trait ids of the members of a group, and those the members produced
MemberTraitIds(grp) ==
    Unique(Flatten([i \in 1..Len(Members(grp)) |-> gatherTraitIds(Members(grp)[i])]))

ProducedTraitIds(grp) == SelectSeq(MemberTraitIds(grp), LAMBDA t : t \in DOMAIN Staged)

\* the piece of a trait: its descriptors joined with "/", its value if it has none
Piece(expr) ==
    IF expr.descriptors = << >> THEN FormatDouble(expr.quantitative)
    ELSE Join(expr.descriptors, "/")

\* the group is composited in the phenotype
Composited(grp) ==
    LET ids == ProducedTraitIds(grp)
    IN  /\ Join(ids, "_") \in DOMAIN result
        /\ result[Join(ids, "_")].descriptors =
               <<Join([i \in 1..Len(ids) |-> Piece(Staged[ids[i]])], ", ")>>
        /\ \A i \in 1..Len(ids) : ids[i] \notin DOMAIN result

\* the traits of the group are as they were before the linkage stage
Uncomposited(grp) ==
    \A t \in Range(MemberTraitIds(grp)) :
        /\ t \in DOMAIN result <=> t \in DOMAIN Staged
        /\ t \in DOMAIN result => result[t] = Staged[t]

\* C22: after expressPhenotype a linkage group of at least 2 member genes that
\* each produced a trait has one composite trait, whose id is the member trait ids
\* joined with "_" and whose single descriptor is the pieces joined with ", ", and
\* no member trait id remains; every other group is left uncomposited.
C22_CompositeIffAllProduced ==
    Linked =>
        \A grp \in LinkageGroups(engine.config) :
            IF Len(Members(grp)) >= 2 /\ \A i \in 1..Len(Members(grp)) : Produced(Members(grp)[i])
            THEN Composited(grp)
            ELSE Uncomposited(grp)

(***************************************************************************)
(* A TraitExpression and its caller: a value-initialized expression that   *)
(* receives contributions through add.                                     *)
(***************************************************************************)
\* how many contributions a run makes
MaxAdds == 3

\* the magnitudes and descriptors of the contributions
DrawnMagnitudes == {0 - Half, Half, One}

DrawnDescriptors == {"", "a", "b"}

InitExpr ==
    /\ engine = NoEngine
    /\ individuals = {}
    /\ lastCall = NoCall
    /\ lastErr = "none"
    /\ args = [op |-> "inputs", adds |-> 0]
    /\ result = NoExpression
    /\ pool = NoPool

\* a call of add on the expression; args keeps the expression as it was
Add(value, descriptor) ==
    /\ args.adds < MaxAdds
    /\ args' = [op |-> "add", adds |-> args.adds + 1, value |-> value,
                descriptor |-> descriptor, before |-> result]
    /\ result' = add(result, value, descriptor)
    /\ UNCHANGED <<engine, individuals, lastCall, lastErr, pool>>

NextExpr == \E value \in DrawnMagnitudes, descriptor \in DrawnDescriptors : Add(value, descriptor)

SpecExpr == InitExpr /\ [][NextExpr]_vars

\* C23: add has two exclusive modes: with a non-empty descriptor it appends the
\* descriptor at the end of the list and leaves the quantitative sum unchanged;
\* with an empty descriptor it adds the magnitude to the sum and leaves the
\* descriptor list unchanged.
C23_AddModesExclusive ==
    args.op = "add" =>
        IF args.descriptor # ""
        THEN /\ result.descriptors = args.before.descriptors \o <<args.descriptor>>
             /\ result.quantitative = args.before.quantitative
        ELSE /\ result.quantitative = args.before.quantitative + args.value
             /\ result.descriptors = args.before.descriptors

\* a descriptor was added to an expression that held a sum and a descriptor
C23_Witness ==
    /\ args.op = "add"
    /\ args.descriptor = "b" /\ args.value = One
    /\ args.before = TraitExpression(Half, <<"a">>)
    /\ result = TraitExpression(Half, <<"a", "b">>)

(***************************************************************************)
(* Mating as a function: runs that draw two Individuals createIndividual   *)
(* returns and call mate on them, with every outcome of the random draws.  *)
(***************************************************************************)
\* a gene of two alleles, the first of the higher rank
Locus(id, chromosome, linkageGroup, recombinationProbability, first, second) ==
    GeneDefinition(id, chromosome, "Complete", linkageGroup, recombinationProbability,
        Half, first,
        <<AlleleDefinition(first, 1, <<AlleleEffect(id, One, first, "")>>),
          AlleleDefinition(second, 0, <<AlleleEffect(id, 0, second, "")>>)>>)

\* two autosomal genes of one group without and with recombination; an X-linked
\* and an autosomal gene of one group next to a Y-linked gene; a Y-linked and an
\* autosomal gene of one group next to an X-linked gene
GameteConfigs ==
    { EngineConfig(<<Locus("a", "Autosomal", <<1>>, 0, "A", "a"),
                     Locus("b", "Autosomal", <<1>>, 0, "B", "b")>>, << >>),
      EngineConfig(<<Locus("a", "Autosomal", <<1>>, 0, "A", "a"),
                     Locus("b", "Autosomal", <<1>>, Half, "B", "b")>>, << >>),
      EngineConfig(<<Locus("x", "X", <<1>>, 0, "C", "c"),
                     Locus("b", "Autosomal", <<1>>, 0, "B", "b"),
                     Locus("y", "Y", NoGroup, 0, "H", "h")>>, << >>),
      EngineConfig(<<Locus("x", "X", NoGroup, 0, "C", "c"),
                     Locus("b", "Autosomal", <<1>>, 0, "B", "b"),
                     Locus("y", "Y", <<1>>, 0, "H", "h")>>, << >>) }

InitMate ==
    /\ engine \in Engines(GameteConfigs)
    /\ individuals = {}
    /\ lastCall = NoCall
    /\ lastErr = "none"
    /\ args \in { [op |-> "inputs", firstParent |-> i, secondParent |-> j] :
                    i \in CreatedIndividuals(engine), j \in CreatedIndividuals(engine) }
    /\ result = NoCall
    /\ pool = NoPool

\* a call of mate on the inputs, with the draws of its two gametes
MateOnce(rndM, rndP) ==
    /\ args.op = "inputs"
    /\ args' = [args EXCEPT !.op = "mate"]
    /\ result' = mate(engine, args.firstParent, args.secondParent, rndM, rndP)
    /\ UNCHANGED <<engine, individuals, lastCall, lastErr, pool>>

NextMate ==
    \E rndM \in MaternalDraws(engine, args.firstParent, args.secondParent),
       rndP \in PaternalDraws(engine, args.firstParent, args.secondParent) :
        MateOnce(rndM, rndP)

SpecMate == InitMate /\ [][NextMate]_vars

\* mate returned a child; its mother, its father and the two gametes
Mated == args.op = "mate" /\ result.err = "none"

Mother == FemaleOf(args.firstParent, args.secondParent)[1]

Father == MaleOf(args.firstParent, args.secondParent)[1]

MaternalGamete == result.maternal[1]

PaternalGamete == result.paternal[1]

\* the genes of a group all have recombination probability 0 and the parent stores
\* two alleles for each of them
FullyLinked(grp, parent) ==
    \A i \in 1..Len(Members(grp)) :
        /\ Members(grp)[i].recombinationProbability = 0
        /\ Members(grp)[i].id \in DOMAIN parent.genotype
        /\ Len(parent.genotype[Members(grp)[i].id]) = 2

\* the gamete carries, for every gene of the group, the allele at one position
SameHomolog(grp, parent, gamete) ==
    \E position \in 1..2 :
        \A i \in 1..Len(Members(grp)) :
            /\ Members(grp)[i].id \in DOMAIN gamete.alleles
            /\ gamete.alleles[Members(grp)[i].id] = parent.genotype[Members(grp)[i].id][position]

\* C24: when every gene of a linkage group has recombination probability 0, a
\* gamete of a parent that stores two alleles for each gene of the group carries
\* the alleles of one homolog position for all genes of the group, in every mating
\* and for every random outcome.
C24_LinkedCosegregate ==
    Mated =>
        \A grp \in LinkageGroups(engine.config) :
            /\ FullyLinked(grp, Mother) => SameHomolog(grp, Mother, MaternalGamete)
            /\ FullyLinked(grp, Father) => SameHomolog(grp, Father, PaternalGamete)

\* a father heterozygous for both genes of a group without recombination passed on
\* the second position of both
C24_Witness ==
    /\ Mated
    /\ GeneIds(engine.config) = <<"a", "b">>
    /\ FullyLinked(1, Father)
    /\ Father.genotype = [a |-> <<"A", "a">>, b |-> <<"B", "b">>]
    /\ PaternalGamete.alleles = [a |-> "a", b |-> "b"]

\* the gametes mate generated, each with the sex of the parent it comes from
GeneratedGametes ==
    { <<Female, result.maternal[i]>> : i \in 1..Len(result.maternal) }
        \cup { <<Male, result.paternal[i]>> : i \in 1..Len(result.paternal) }

\* the gamete holds an allele of some gene of the chromosome
HoldsAlleleOf(gamete, chromosome) ==
    \E i \in 1..Len(engine.config.genes) :
        /\ engine.config.genes[i].chromosome = chromosome
        /\ engine.config.genes[i].id \in DOMAIN gamete.alleles

\* C25: a gamete of a male carries exactly one of the sex determinants and a
\* gamete of a female carries X and never Y; a gamete holds an allele of a
\* Y-linked gene only if it comes from a male and carries Y, and a gamete of a
\* male holds an allele of an X-linked gene only if it carries X; for linked and
\* for unlinked genes alike.
C25_GameteSexDeterminants ==
    args.op = "mate" =>
        \A g \in GeneratedGametes :
            /\ g[1] = Male => (g[2].carriesX # g[2].carriesY)
            /\ g[1] = Female => (g[2].carriesX /\ ~g[2].carriesY)
            /\ HoldsAlleleOf(g[2], "Y") => (g[1] = Male /\ g[2].carriesY)
            /\ (g[1] = Male /\ HoldsAlleleOf(g[2], "X")) => g[2].carriesX

\* a father passed on Y with the allele of his linked Y-linked gene and without
\* the allele of his X-linked gene
C25_Witness ==
    /\ Mated
    /\ GeneIds(engine.config) = <<"x", "b", "y">>
    /\ GeneById(engine, "y").linkageGroup = <<1>>
    /\ Father.genotype["x"] = <<"c">>
    /\ PaternalGamete.carriesY /\ ~PaternalGamete.carriesX
    /\ DOMAIN PaternalGamete.alleles = {"b", "y"}
    /\ HoldsAlleleOf(MaternalGamete, "X")

\* the child mate returned
Child == result.value[1]

\* the alleles a parent stores for a gene
StoredAlleles(parent, geneId) ==
    IF geneId \in DOMAIN parent.genotype THEN Range(parent.genotype[geneId]) ELSE {}

\* the genotype of the child for a gene, as the claim gives it
InheritedAsStated(gene) ==
    LET has == gene.id \in DOMAIN Child.genotype
        genotype == Child.genotype[gene.id]
        maternal == StoredAlleles(Mother, gene.id)
        paternal == StoredAlleles(Father, gene.id)
    IN  CASE gene.chromosome = "Autosomal" ->
                /\ has /\ Len(genotype) = 2
                /\ genotype[1] \in maternal /\ genotype[2] \in paternal
          [] gene.chromosome = "X" /\ Child.sex = Female ->
                /\ has /\ Len(genotype) = 2
                /\ genotype[1] \in maternal /\ genotype[2] = Father.genotype[gene.id][1]
          [] gene.chromosome = "X" /\ Child.sex = Male ->
                /\ has /\ Len(genotype) = 1 /\ genotype[1] \in maternal
          [] gene.chromosome = "Y" /\ Child.sex = Male ->
                /\ has /\ genotype = <<Father.genotype[gene.id][1]>>
          [] OTHER -> TRUE

\* C28: in the child of mate the sex is Male iff the paternal gamete carries Y; an
\* autosomal gene has [m, p], m one of the mother's and p one of the father's
\* stored alleles; an X-linked gene has [m, p] with p the father's X allele in a
\* daughter and the single maternal allele [m] in a son; a Y-linked gene of a son
\* has the father's single allele; no allele of the child comes from outside its
\* parents' genotypes.
C28_ChildFromParents ==
    Mated =>
        /\ Child.sex = Male <=> PaternalGamete.carriesY
        /\ \A i \in 1..Len(engine.config.genes) : InheritedAsStated(engine.config.genes[i])
        /\ \A id \in DOMAIN Child.genotype :
               Range(Child.genotype[id]) \subseteq
                   StoredAlleles(Mother, id) \cup StoredAlleles(Father, id)

\* a son of a mother of two B and a father of two b: B first for the autosomal
\* gene, one maternal allele for the X-linked gene, the father's Y-linked allele
C28_Witness ==
    /\ Mated
    /\ GeneIds(engine.config) = <<"x", "b", "y">>
    /\ Mother.genotype["b"] = <<"B", "B">> /\ Father.genotype["b"] = <<"b", "b">>
    /\ Mother.genotype["x"] = <<"C", "c">> /\ Father.genotype["x"] = <<"C">>
    /\ Father.genotype["y"] = <<"h">>
    /\ Child = Individual(Male, [x |-> <<"c">>, b |-> <<"B", "b">>, y |-> <<"h">>])

(***************************************************************************)
(* Claims about the genotype labels of the exact calculator.               *)
(***************************************************************************)
\* the label of the pair parses back to the two alleles, in either order
RoundTrips(gene, allele1, allele2) ==
    parseGenotypeString(gene, normalizeGenotypeString(gene, allele1, allele2))
        \in {<<allele1, allele2>>, <<allele2, allele1>>}

\* C27: genotype labels round-trip: for every gene and every pair of its alleles
\* (a1, a2), parseGenotypeString of normalizeGenotypeString(gene, a1, a2) gives
\* exactly the alleles a1 and a2, homozygous pairs and allele ids that share
\* characters or are a prefix of one another included.
C27_LabelsRoundTrip ==
    args.op = "calculateCross" =>
        \A geneId \in RequestedGenes(engine, args.geneIds) :
            \A allele1 \in StoredAlleles(args.parent1, geneId),
               allele2 \in StoredAlleles(args.parent2, geneId) :
                RoundTrips(GeneById(engine, geneId), allele1, allele2)

(***************************************************************************)
(* ThreadPool (ThreadPool.hpp, ThreadPool.cpp): the worker threads, and a  *)
(* caller thread that submits tasks, waits for them and destroys the pool. *)
(* A task may itself submit a task.  Each step is one critical section of  *)
(* queue_mutex_ or one access outside it; condition_variable::wait(lock,   *)
(* pred) evaluates pred with the mutex held and, if it is false, releases  *)
(* the mutex and blocks in one atomic step of its own.                     *)
(***************************************************************************)
\* how many submit calls a run makes
MaxTasks == 3

\* the worker threads of a pool of two, in the order of workers_
WorkerIds == <<"worker0", "worker1">>

Workers == Range(WorkerIds)

\* the state after ThreadPool::ThreadPool: workers_ holds the position of each
\* worker thread in workerLoop, caller the position of the caller thread
PoolCtor ==
    [workers_ |-> [w \in Workers |-> "loop"],
     tasks_ |-> << >>,
     queue_mutex_ |-> "free",
     stop_ |-> FALSE,
     active_tasks_ |-> 0,
     total_tasks_processed_ |-> 0,
     caller |-> "idle",
     task |-> [w \in Workers |-> 0],
     joined |-> 0,
     submitted |-> 0,
     accepted |-> {},
     executed |-> EmptyMap]

InitPool ==
    /\ engine = NoEngine
    /\ individuals = {}
    /\ lastCall = NoCall
    /\ lastErr = "none"
    /\ args = NoCall
    /\ result = NoCall
    /\ pool = PoolCtor

\* the workers that executed a task, one entry for each execution
ExecutedBy(id) == IF id \in DOMAIN pool.executed THEN pool.executed[id] ELSE << >>

\* the positions of the workers after condition_.notify_one(): one of the blocked
\* workers is woken, if there is one
NotifyOne ==
    IF \A w \in Workers : pool.workers_[w] # "blocked" THEN {pool.workers_}
    ELSE { [pool.workers_ EXCEPT ![w] = "loop"] :
             w \in { v \in Workers : pool.workers_[v] = "blocked" } }

\* the positions of the workers after condition_.notify_all()
NotifyAll ==
    [w \in Workers |-> IF pool.workers_[w] = "blocked" THEN "loop" ELSE pool.workers_[w]]

\* the position of the caller after completion_condition_.notify_all()
NotifyCompletion == IF pool.caller = "wa_blocked" THEN "waitAll" ELSE pool.caller

\* workerLoop with a fault: a worker exits as soon as the pool is stopping
ShouldExitOnStop == pool.stop_

\* workerLoop: stop_.load() && tasks_.empty()
ShouldExit == pool.stop_ /\ pool.tasks_ = << >>

\* the critical section of submit: the task is refused when the pool is stopping,
\* else enqueued
Enqueue(p) ==
    IF p.stop_ THEN [p EXCEPT !.submitted = @ + 1]
    ELSE [p EXCEPT !.submitted = @ + 1,
                   !.accepted = @ \cup {p.submitted + 1},
                   !.tasks_ = Append(@, p.submitted + 1)]

\* workerLoop: the critical section at the top of the loop, entered at the start
\* of an iteration and after a notification
WorkerLock(w) ==
    /\ pool.workers_[w] = "loop"
    /\ pool.queue_mutex_ = "free"
    /\ pool' =
         IF ~(pool.stop_ \/ pool.tasks_ # << >>)
         THEN [pool EXCEPT !.workers_[w] = "wait", !.queue_mutex_ = w]
         ELSE IF ShouldExit
              THEN [pool EXCEPT !.workers_[w] = "exited"]
         ELSE [pool EXCEPT !.workers_[w] = "run",
                           !.task[w] = Head(pool.tasks_),
                           !.tasks_ = Tail(@),
                           !.total_tasks_processed_ = @ + 1,
                           !.active_tasks_ = @ + 1]
    /\ UNCHANGED <<engine, individuals, lastCall, lastErr, args, result>>

\* condition_.wait: the mutex is released and the worker blocks
WorkerWait(w) ==
    /\ pool.workers_[w] = "wait"
    /\ pool' = [pool EXCEPT !.workers_[w] = "blocked", !.queue_mutex_ = "free"]
    /\ UNCHANGED <<engine, individuals, lastCall, lastErr, args, result>>

\* the task of the worker calls submit
TaskSubmit(w) ==
    /\ pool.workers_[w] = "run"
    /\ pool.submitted < MaxTasks
    /\ pool.queue_mutex_ = "free"
    /\ pool' = [Enqueue(pool) EXCEPT !.workers_[w] = IF pool.stop_ THEN "run" ELSE "t_notify"]
    /\ UNCHANGED <<engine, individuals, lastCall, lastErr, args, result>>

\* submit called by a task: condition_.notify_one()
TaskNotify(w) ==
    /\ pool.workers_[w] = "t_notify"
    /\ \E ws \in NotifyOne : pool' = [pool EXCEPT !.workers_ = [ws EXCEPT ![w] = "run"]]
    /\ UNCHANGED <<engine, individuals, lastCall, lastErr, args, result>>

\* task() returns
TaskRun(w) ==
    /\ pool.workers_[w] = "run"
    /\ pool' = [pool EXCEPT !.workers_[w] = "finish",
                            !.executed = MapPut(@, pool.task[w],
                                                Append(ExecutedBy(pool.task[w]), w))]
    /\ UNCHANGED <<engine, individuals, lastCall, lastErr, args, result>>

\* active_tasks_.fetch_sub(1)
WorkerFinish(w) ==
    /\ pool.workers_[w] = "finish"
    /\ pool' = [pool EXCEPT !.workers_[w] = "notify", !.active_tasks_ = @ - 1,
                            !.task[w] = 0]
    /\ UNCHANGED <<engine, individuals, lastCall, lastErr, args, result>>

\* completion_condition_.notify_all(), and back to the top of the loop
WorkerNotify(w) ==
    /\ pool.workers_[w] = "notify"
    /\ pool' = [pool EXCEPT !.workers_[w] = "loop", !.caller = NotifyCompletion]
    /\ UNCHANGED <<engine, individuals, lastCall, lastErr, args, result>>

\* the steps of a worker thread
WorkerStep(w) ==
    \/ WorkerLock(w)
    \/ WorkerWait(w)
    \/ TaskSubmit(w)
    \/ TaskNotify(w)
    \/ TaskRun(w)
    \/ WorkerFinish(w)
    \/ WorkerNotify(w)

\* the caller calls submit: its critical section
Submit ==
    /\ pool.caller = "idle"
    /\ pool.submitted < MaxTasks
    /\ pool.queue_mutex_ = "free"
    /\ pool' = [Enqueue(pool) EXCEPT !.caller = "s_notify"]
    /\ UNCHANGED <<engine, individuals, lastCall, lastErr, args, result>>

\* submit: condition_.notify_one() and return
SubmitNotify ==
    /\ pool.caller = "s_notify"
    /\ \E ws \in NotifyOne : pool' = [pool EXCEPT !.workers_ = ws, !.caller = "idle"]
    /\ UNCHANGED <<engine, individuals, lastCall, lastErr, args, result>>

\* the caller calls waitAll
WaitAll ==
    /\ pool.caller = "idle"
    /\ pool' = [pool EXCEPT !.caller = "waitAll"]
    /\ UNCHANGED <<engine, individuals, lastCall, lastErr, args, result>>

\* waitAll: the predicate is evaluated with the mutex held; waitAll returns when it
\* is true
WaitAllCheck ==
    /\ pool.caller = "waitAll"
    /\ pool.queue_mutex_ = "free"
    /\ pool' =
         IF pool.tasks_ = << >> /\ pool.active_tasks_ = 0
         THEN [pool EXCEPT !.caller = "wa_return"]
         ELSE [pool EXCEPT !.caller = "wa_wait", !.queue_mutex_ = "caller"]
    /\ UNCHANGED <<engine, individuals, lastCall, lastErr, args, result>>

\* completion_condition_.wait: the mutex is released and the caller blocks
WaitAllWait ==
    /\ pool.caller = "wa_wait"
    /\ pool' = [pool EXCEPT !.caller = "wa_blocked", !.queue_mutex_ = "free"]
    /\ UNCHANGED <<engine, individuals, lastCall, lastErr, args, result>>

\* the caller goes on after waitAll
WaitAllReturn ==
    /\ pool.caller = "wa_return"
    /\ pool' = [pool EXCEPT !.caller = "idle"]
    /\ UNCHANGED <<engine, individuals, lastCall, lastErr, args, result>>

\* ~ThreadPool: stop_.store(true) with the mutex held
Destroy ==
    /\ pool.caller = "idle"
    /\ pool.queue_mutex_ = "free"
    /\ pool' = [pool EXCEPT !.caller = "d_notify", !.stop_ = TRUE]
    /\ UNCHANGED <<engine, individuals, lastCall, lastErr, args, result>>

\* ~ThreadPool: condition_.notify_all()
DestroyNotify ==
    /\ pool.caller = "d_notify"
    /\ pool' = [pool EXCEPT !.caller = "d_join", !.workers_ = NotifyAll]
    /\ UNCHANGED <<engine, individuals, lastCall, lastErr, args, result>>

\* ~ThreadPool: join of the next worker in workers_, and return after the last
JoinWorker ==
    /\ pool.caller = "d_join"
    /\ pool.workers_[WorkerIds[pool.joined + 1]] = "exited"
    /\ pool' = [pool EXCEPT !.joined = @ + 1,
                            !.caller = IF pool.joined + 1 = Len(WorkerIds)
                                       THEN "destroyed" ELSE "d_join"]
    /\ UNCHANGED <<engine, individuals, lastCall, lastErr, args, result>>

\* the steps of the caller inside a call it has made
CallerStep ==
    \/ SubmitNotify
    \/ WaitAllCheck
    \/ WaitAllWait
    \/ WaitAllReturn
    \/ DestroyNotify
    \/ JoinWorker

\* a spurious wakeup of a thread blocked in a condition_variable
SpuriousWakeup ==
    /\ \/ \E w \in Workers :
             /\ pool.workers_[w] = "blocked"
             /\ pool' = [pool EXCEPT !.workers_[w] = "loop"]
       \/ /\ pool.caller = "wa_blocked"
          /\ pool' = [pool EXCEPT !.caller = "waitAll"]
    /\ UNCHANGED <<engine, individuals, lastCall, lastErr, args, result>>

NextPool ==
    \/ \E w \in Workers : WorkerStep(w)
    \/ Submit
    \/ WaitAll
    \/ Destroy
    \/ CallerStep
    \/ SpuriousWakeup

\* every thread that can take a step of its code takes it in the end; the caller
\* is free not to call, and no wakeup is owed to a blocked thread without a notify
SpecPool ==
    /\ InitPool
    /\ [][NextPool]_vars
    /\ \A w \in Workers : SF_vars(WorkerStep(w))
    /\ SF_vars(CallerStep)

\* waitAll returns only when the queue is empty and no worker runs a task
ReturnsWhenIdle ==
    pool.caller = "wa_return" =>
        /\ pool.tasks_ = << >>
        /\ \A w \in Workers : pool.workers_[w] \notin {"run", "t_notify", "finish"}

InWaitAll == pool.caller \in {"waitAll", "wa_wait", "wa_blocked"}

\* C29: waitAll returns only in a state where the task queue is empty and no
\* worker is running a task, and, every task terminating and the submits coming
\* to an end, every call of waitAll returns in the end under every interleaving
\* of the caller with the workers: no completion notification is lost.
C29_WaitAllReturns ==
    /\ []ReturnsWhenIdle
    /\ InWaitAll ~> (pool.caller = "wa_return")

\* the submit calls that were refused
Refused == (1..pool.submitted) \ pool.accepted

\* when the destructor has returned, every accepted task has been executed once
\* and every worker thread has exited
DrainedWhenDestroyed ==
    pool.caller = "destroyed" =>
        /\ \A id \in pool.accepted : Len(ExecutedBy(id)) = 1
        /\ \A w \in Workers : pool.workers_[w] = "exited"

\* no task is executed twice, and none that was not accepted
ExecutedOnce ==
    \A id \in DOMAIN pool.executed : id \in pool.accepted /\ Len(pool.executed[id]) = 1

\* a refused task is in no queue and in no worker's hands
RefusedNotEnqueued ==
    \A id \in Refused :
        /\ id \notin Range(pool.tasks_)
        /\ id \notin DOMAIN pool.executed
        /\ \A w \in Workers : pool.task[w] # id

\* a submit that finds stop_ set enqueues nothing, and only such a submit is
\* refused
RefusedIffStopping ==
    (pool.submitted' # pool.submitted) =>
        IF pool.stop_
        THEN pool.tasks_' = pool.tasks_ /\ pool.accepted' = pool.accepted
        ELSE pool.tasks_' = Append(pool.tasks_, pool.submitted') /\ Refused' = Refused

\* C30: the destructor waits for all tasks and joins the threads: every task that
\* submit accepted is executed exactly once, by one worker, before the destructor
\* returns; every worker thread exits in the end; and a submit that observes the
\* stop flag fails without enqueuing the task.
C30_DestructorDrains ==
    /\ [](DrainedWhenDestroyed /\ ExecutedOnce /\ RefusedNotEnqueued)
    /\ [][RefusedIffStopping]_vars
    /\ pool.stop_ ~> (pool.caller = "destroyed")

\* the destructor has returned after two tasks that two workers executed, and the
\* submit of a task that ran during the shutdown was refused
C30_Witness ==
    /\ pool.caller = "destroyed"
    /\ pool.accepted = {1, 2}
    /\ Refused = {3}
    /\ ExecutedBy(1) # ExecutedBy(2)
    /\ \A w \in Workers : pool.workers_[w] = "exited"

(***************************************************************************)
(* Concurrent calls on one Engine: two callers hold a reference to the     *)
(* same Engine and to the same Individuals and run its const operations,   *)
(* every call in steps that interleave with the steps of the other call.   *)
(* args[c] is the frame of the call of caller c (its arguments and its     *)
(* locals), result[c] what the call returned.                              *)
(***************************************************************************)
Callers == {"caller1", "caller2"}

SharedConfig == EngineConfig(<<EyeColor, Vision(NoGroup)>>, << >>)

\* the alleles a caller supplies for a gene: two of an autosomal gene and of a
\* female's X-linked gene, one otherwise
SharedSupplied(gene, sex) ==
    IF gene.chromosome = "Autosomal" \/ (gene.chromosome = "X" /\ sex = Female)
    THEN <<gene.alleles[1].id, gene.alleles[2].id>>
    ELSE <<gene.alleles[1].id>>

\* the two Individuals the callers share: a female and a male
SharedIndividuals(eng) ==
    [i \in 1..2 |->
        LET sex == IF i = 1 THEN Female ELSE Male
        IN  createIndividual(eng, sex,
                [id \in Range(GeneIds(eng.config)) |->
                    SharedSupplied(GeneById(eng, id), sex)]).value[1]]

\* the genotype maps the callers pass to createIndividual: one or two alleles of
\* every gene
SharedGenotypes(eng) ==
    { [id \in Range(GeneIds(eng.config)) |->
          SubSeq(AlleleIds(GeneById(eng, id)), 1, n)] : n \in 1..2 }

\* the gene lists the callers request of the calculator
SharedRequests(eng) == { <<g>> : g \in Range(GeneIds(eng.config)) } \cup {GeneIds(eng.config)}

\* a std::mt19937 that was not seeded
NoRng == [m |-> NoDraws, p |-> NoDraws]

\* a caller outside a call
IdleFrame ==
    [op |-> "idle", pc |-> "idle", in |-> NoCall, rng |-> NoRng,
     maternal |-> << >>, paternal |-> << >>, traits |-> EmptyMap]

Frame(op, pc, in) == [IdleFrame EXCEPT !.op = op, !.pc = pc, !.in = in]

\* a generator with a fault: one generator, a member of the Engine, for all calls
RandomSourceOfEngine(c) == "caller1"

\* the generator a call of mate draws from: the local rng of that call
RandomSource(c) == c

InitShared ==
    /\ engine \in Engines({SharedConfig})
    /\ individuals = SharedIndividuals(engine)
    /\ lastCall = NoCall
    /\ lastErr = "none"
    /\ args = [c \in Callers |-> IdleFrame]
    /\ result = [c \in Callers |-> NoCall]
    /\ pool = NoPool

\* caller c enters an operation
Call(c, op, pc, in) ==
    /\ args[c].pc = "idle"
    /\ args' = [args EXCEPT ![c] = Frame(op, pc, in)]
    /\ result' = [result EXCEPT ![c] = NoCall]
    /\ UNCHANGED <<engine, individuals, lastCall, lastErr, pool>>

\* the call of caller c returns res
Returns(c, res) ==
    /\ args' = [args EXCEPT ![c].pc = "done"]
    /\ result' = [result EXCEPT ![c] = res]

\* caller c takes what its call returned
Return(c) ==
    /\ args[c].pc = "done"
    /\ args' = [args EXCEPT ![c] = IdleFrame]
    /\ result' = [result EXCEPT ![c] = NoCall]
    /\ UNCHANGED <<engine, individuals, lastCall, lastErr, pool>>

FirstParent(c) == individuals[args[c].in.firstParent]

SecondParent(c) == individuals[args[c].in.secondParent]

\* mate up to the seeding of its generator: the parents are told apart, and the
\* seed fixes the draws of the two gametes
MateSexes(c) ==
    /\ args[c].op = "mate" /\ args[c].pc = "sexes"
    /\ IF MaleOf(FirstParent(c), SecondParent(c)) = << >>
            \/ FemaleOf(FirstParent(c), SecondParent(c)) = << >>
       THEN Returns(c, Throw("invalid_argument"))
       ELSE /\ \E rndM \in MaternalDraws(engine, FirstParent(c), SecondParent(c)),
                  rndP \in PaternalDraws(engine, FirstParent(c), SecondParent(c)) :
                    args' = [args EXCEPT ![RandomSource(c)].rng = [m |-> rndM, p |-> rndP],
                                         ![c].pc = "maternal"]
            /\ UNCHANGED result
    /\ UNCHANGED <<engine, individuals, lastCall, lastErr, pool>>

\* Gamete maternal = generateGamete(*female, Sex::Female, rng)
MateMaternal(c) ==
    /\ args[c].op = "mate" /\ args[c].pc = "maternal"
    /\ LET gamete == generateGamete(engine,
                        FemaleOf(FirstParent(c), SecondParent(c))[1], Female,
                        args[RandomSource(c)].rng.m)
       IN  IF gamete.err # "none" THEN Returns(c, Throw(gamete.err))
           ELSE /\ args' = [args EXCEPT ![c].maternal = <<gamete.value>>,
                                        ![c].pc = "paternal"]
                /\ UNCHANGED result
    /\ UNCHANGED <<engine, individuals, lastCall, lastErr, pool>>

\* Gamete paternal = generateGamete(*male, Sex::Male, rng)
MatePaternal(c) ==
    /\ args[c].op = "mate" /\ args[c].pc = "paternal"
    /\ LET gamete == generateGamete(engine,
                        MaleOf(FirstParent(c), SecondParent(c))[1], Male,
                        args[RandomSource(c)].rng.p)
       IN  IF gamete.err # "none" THEN Returns(c, Throw(gamete.err))
           ELSE /\ args' = [args EXCEPT ![c].paternal = <<gamete.value>>,
                                        ![c].pc = "child"]
                /\ UNCHANGED result
    /\ UNCHANGED <<engine, individuals, lastCall, lastErr, pool>>

\* the child is built from the two gametes and returned
MateChild(c) ==
    /\ args[c].op = "mate" /\ args[c].pc = "child"
    /\ Returns(c, Conceive(engine, args[c].maternal[1], args[c].paternal[1]))
    /\ UNCHANGED <<engine, individuals, lastCall, lastErr, pool>>

\* a stage of expressPhenotype on the local Phenotype
ExpressStage(c, pc, next, traits) ==
    /\ args[c].op = "expressPhenotype" /\ args[c].pc = pc
    /\ args' = [args EXCEPT ![c].traits = traits, ![c].pc = next]
    /\ UNCHANGED <<engine, individuals, lastCall, lastErr, result, pool>>

ExpressDominance(c) ==
    ExpressStage(c, "dominance", "overrides",
        ResolveDominance(engine, individuals[args[c].in.individual], EmptyMap,
                         engine.config.genes))

ExpressOverrides(c) ==
    ExpressStage(c, "overrides", "epistasis",
        applyPhenotypeOverrides(engine, individuals[args[c].in.individual], args[c].traits))

ExpressEpistasis(c) ==
    ExpressStage(c, "epistasis", "linkage",
        applyEpistasis(engine, individuals[args[c].in.individual], args[c].traits))

\* the linkage stage, after which the Phenotype is returned
ExpressLinkage(c) ==
    /\ args[c].op = "expressPhenotype" /\ args[c].pc = "linkage"
    /\ Returns(c, Ok(applyLinkageTraits(engine, args[c].traits)))
    /\ UNCHANGED <<engine, individuals, lastCall, lastErr, pool>>

\* createIndividual
CreateShared(c) ==
    /\ args[c].op = "createIndividual" /\ args[c].pc = "normalize"
    /\ Returns(c, createIndividual(engine, args[c].in.sex, args[c].in.genotype))
    /\ UNCHANGED <<engine, individuals, lastCall, lastErr, pool>>

\* calculateCross and calculateJointPhenotypes of a calculator on the Engine
CalculateShared(c) ==
    /\ args[c].pc = "calculate"
    /\ Returns(c, Ok(IF args[c].op = "calculateCross"
                     THEN calculateCross(engine, FirstParent(c), SecondParent(c),
                                         args[c].in.geneIds, FALSE)
                     ELSE calculateJointPhenotypes(engine, FirstParent(c), SecondParent(c),
                                                   args[c].in.geneIds, FALSE)))
    /\ UNCHANGED <<engine, individuals, lastCall, lastErr, pool>>

\* the calls a caller makes
Calls(c) ==
    \/ \E i \in 1..2, j \in 1..2 :
            Call(c, "mate", "sexes", [firstParent |-> i, secondParent |-> j])
    \/ \E i \in 1..2 : Call(c, "expressPhenotype", "dominance", [individual |-> i])
    \/ \E sex \in Sex, genotype \in SharedGenotypes(engine) :
            Call(c, "createIndividual", "normalize", [sex |-> sex, genotype |-> genotype])
    \/ \E op \in {"calculateCross", "calculateJointPhenotypes"},
          geneIds \in SharedRequests(engine) :
            Call(c, op, "calculate", [firstParent |-> 1, secondParent |-> 2,
                                      geneIds |-> geneIds])

\* a step of caller c
CallerSteps(c) ==
    \/ Calls(c)
    \/ MateSexes(c)
    \/ MateMaternal(c)
    \/ MatePaternal(c)
    \/ MateChild(c)
    \/ ExpressDominance(c)
    \/ ExpressOverrides(c)
    \/ ExpressEpistasis(c)
    \/ ExpressLinkage(c)
    \/ CreateShared(c)
    \/ CalculateShared(c)
    \/ Return(c)

NextShared == \E c \in Callers : CallerSteps(c)

SpecShared == InitShared /\ [][NextShared]_vars

\* what the call of a frame can return when no other call runs
ReturnsAlone(frame) ==
    LET first == individuals[frame.in.firstParent]
        second == individuals[frame.in.secondParent]
    IN  CASE frame.op = "mate" ->
               { [err |-> r.err, value |-> r.value] :
                   r \in { mate(engine, first, second, rndM, rndP) :
                             rndM \in MaternalDraws(engine, first, second),
                             rndP \in PaternalDraws(engine, first, second) } }
          [] frame.op = "expressPhenotype" ->
               { Ok(expressPhenotype(engine, individuals[frame.in.individual])) }
          [] frame.op = "createIndividual" ->
               { createIndividual(engine, frame.in.sex, frame.in.genotype) }
          [] frame.op = "calculateCross" ->
               { Ok(calculateCross(engine, first, second, frame.in.geneIds, FALSE)) }
          [] frame.op = "calculateJointPhenotypes" ->
               { Ok(calculateJointPhenotypes(engine, first, second,
                                             frame.in.geneIds, FALSE)) }

\* every call that has returned returned what it can return alone
ResultsAsAlone ==
    \A c \in Callers : args[c].pc = "done" => result[c] \in ReturnsAlone(args[c])

\* the Engine (configuration and indices) and the Individuals stay as they are
EngineUntouched == engine' = engine /\ individuals' = individuals

\* a step changes the frame and the result of one call only
OwnFrameOnly ==
    \E c \in Callers : \A d \in Callers \ {c} : args'[d] = args[d] /\ result'[d] = result[d]

\* C26: under every interleaving of the steps of two calls on one Engine, no step
\* changes the Engine's configuration or indices or the Individuals passed, every
\* step changes the state of one call only (each mate draws from its own
\* generator), and every call returns a result it can return when run alone.
C26_SharedEngineIndependent ==
    /\ []ResultsAsAlone
    /\ [][EngineUntouched /\ OwnFrameOnly]_vars

\* a mate has returned a child while another mate, seeded with other draws, is
\* between its two gametes
C26_Witness ==
    \E c \in Callers, d \in Callers :
        /\ c # d
        /\ args[c].op = "mate" /\ args[c].pc = "done" /\ result[c].err = "none"
        /\ args[d].op = "mate" /\ args[d].pc = "paternal"
        /\ args[c].rng # args[d].rng

=========================================================================
